---------------------------- MODULE Spec2Model ----------------------------
(***************************************************************************)
(* Model of the Polymarket mispricing engine (packages/polymarket) and of  *)
(* the scan that feeds it (scanPolymarketMispricing).                      *)
(*                                                                         *)
(* Numbers.  JavaScript numbers are modelled in fixed point:               *)
(*   - probabilities, fractions, weights, component scores: 1 = 1e-6       *)
(*   - edgePct: 1 = 1e-6 percentage points; mispricingScore: 1 = 1e-6 pt   *)
(*   - spreadBps: 1 = 0.01 bp (so a fraction f in 1e-6 units, times        *)
(*     10_000 bp, is numerically f again)                                  *)
(*   - volume24hr, liquidity, minVolume: whole units                       *)
(*   - time: milliseconds since the epoch; ages: 1 = 1e-6 minute           *)
(*   - limit and concurrency of a scan input: 1 = 0.1, so that a number    *)
(*     that is no integer can be given; normalizeInput returns them whole  *)
(* Products and quotients are rounded to the unit (FMul, FDiv).            *)
(* null and undefined are the values Null and Undefined.                   *)
(* A function's locals that are used more than once are handed on as       *)
(* operator arguments, so that each is computed once.                      *)
(***************************************************************************)
EXTENDS Integers, Sequences, FiniteSets, TLC

Micro == 1000 * 1000

\* null (types.ts: `number | null`), undefined (an omitted option, `?.` on
\* null) and NaN (Date.parse of a string that is no date)
Null == 0 - 1000000000
Undefined == 0 - 1000000001
NaN == 0 - 1000000002

\* Strings that are compared (ids, slugs) are tuples of character ranks in
\* collation order; NullStr is `null` where a string may be null.
NullStr == <<0>>

\* n / d as a fixed-point number (a decimal literal of the source)
Dec(n, d) == (n * Micro) \div d

Min(a, b) == IF a < b THEN a ELSE b
Max(a, b) == IF a > b THEN a ELSE b
Abs(a) == IF a < 0 THEN 0 - a ELSE a

\* a * b for fixed-point a and b >= 0, rounded to the nearest unit, without
\* leaving 32 bits
FMul(a, b) ==
  LET bh == b \div 1000
      bl == b % 1000
  IN  (a * bh + ((a * bl + 500000) \div 1000)) \div 1000

RECURSIVE LongDiv(_, _, _, _)
LongDiv(q, r, b, digits) ==
  IF digits = 0 THEN q
  ELSE LongDiv(q * 10 + ((r * 10) \div b), (r * 10) % b, b, digits - 1)

\* a / b as a fixed-point number (b > 0), rounded to the nearest unit, by long
\* division to seven decimals
FDiv(a, b) == (LongDiv(a \div b, a % b, b, 7) + 5) \div 10

\* Math.log10(x) for the whole numbers x the model's markets produce
Log10(x) ==
  CASE x = 1 -> 0
    [] x = 250 -> 2397940
    [] x = 251 -> 2399674
    [] x = 501 -> 2699838
    [] x = 1000 -> 3000000
    [] x = 1001 -> 3000434
    [] x = 2500 -> 3397940
    [] x = 2501 -> 3398114
    [] x = 100000 -> 5000000
    [] x = 1000000 -> 6000000

(***************************************************************************)
(* types.ts: the leaf helpers                                              *)
(***************************************************************************)
clamp(value, min, max) == Min(max, Max(min, value))

\* clampProbability without the clamp
clampProbabilityUnclamped(value) == value

clampProbability(value) == clamp(value, Dec(1, 100), Dec(99, 100))

blend(left, right, leftWeight) ==
  FMul(left, leftWeight) + FMul(right, Micro - leftWeight)

\* Math.round(value * 100) / 100 on a 1e-6 value
round2(value) == ((value + 5000) \div 10000) * 10000

\* Math.round(value * 10_000) / 10_000 on a 1e-6 value
round4(value) == ((value + 50) \div 100) * 100

\* v ?? d
Coalesce(v, d) == IF v = Null \/ v = Undefined THEN d ELSE v

\* outcome.trim().toUpperCase() on the outcome labels of the model
TrimUpper(label) ==
  CASE label = "Yes" -> "YES"
    [] label = " yes " -> "YES"
    [] label = "No" -> "NO"
    [] label = "Up" -> "UP"
    [] label = "Down" -> "DOWN"

\* outcomes.findIndex(pred): the first index (1-based here) or 0 for -1
FindIndexYes(outcomes) ==
  LET hits == {i \in 1..Len(outcomes) : TrimUpper(outcomes[i]) = "YES"}
  IN  IF hits = {} THEN 0 ELSE CHOOSE i \in hits : \A j \in hits : i <= j

\* getYesProbability from `const index` on; yesIndex is 1-based, 0 for -1
YesPriceAt(outcomePrices, yesIndex) ==
  LET index == IF yesIndex >= 1 THEN yesIndex ELSE 1
  IN  IF index > Len(outcomePrices) THEN Null
      ELSE IF outcomePrices[index] = Null THEN Null
      ELSE clampProbability(outcomePrices[index])

getYesProbability(market) ==
  IF Len(market.outcomePrices) = 0 THEN Null
  ELSE YesPriceAt(market.outcomePrices, FindIndexYes(market.outcomes))

\* `orderbook: OrderbookSnapshot | null`: the null snapshot
NullOrderbook == [isNull |-> TRUE]

\* orderbook?.field: undefined when the snapshot is null
OptField(orderbook, f) ==
  IF orderbook = NullOrderbook THEN Undefined ELSE orderbook[f]

\* resolveSpreadBps with the market's spread field ahead of the order book's
resolveSpreadBpsMarketFirst(market, orderbook) ==
  IF market.spread # Null
    THEN Max(0, market.spread)
  ELSE IF OptField(orderbook, "spreadBps") # Null
            /\ OptField(orderbook, "spreadBps") # Undefined
    THEN Max(0, orderbook.spreadBps)
  ELSE IF market.bestBid # Null /\ market.bestAsk # Null
            /\ (market.bestBid + market.bestAsk) \div 2 > 0
    THEN Max(0, FDiv(market.bestAsk - market.bestBid,
                     (market.bestBid + market.bestAsk) \div 2))
  ELSE Null

resolveSpreadBps(market, orderbook) ==
  IF OptField(orderbook, "spreadBps") # Null
       /\ OptField(orderbook, "spreadBps") # Undefined
    THEN Max(0, orderbook.spreadBps)
  ELSE IF market.spread # Null
    THEN Max(0, market.spread)
  ELSE IF market.bestBid # Null /\ market.bestAsk # Null
            /\ (market.bestBid + market.bestAsk) \div 2 > 0
    THEN Max(0, FDiv(market.bestAsk - market.bestBid,
                     (market.bestBid + market.bestAsk) \div 2))
  ELSE Null

\* the `marketProb` local with the quote midpoint ahead of the order book's
BlendedProbabilityQuoteFirst(outcomeProb, quoteMid, orderbookMid) ==
  IF quoteMid # Null
    THEN blend(quoteMid, Coalesce(outcomeProb, quoteMid), Dec(7, 10))
  ELSE IF orderbookMid # Null
    THEN blend(orderbookMid, Coalesce(outcomeProb, orderbookMid), Dec(55, 100))
  ELSE Coalesce(outcomeProb, Dec(5, 10))

\* the `marketProb` local of resolveMarketProbability
BlendedProbability(outcomeProb, quoteMid, orderbookMid) ==
  IF orderbookMid # Null
    THEN blend(orderbookMid,
               Coalesce(quoteMid, Coalesce(outcomeProb, orderbookMid)),
               Dec(55, 100))
  ELSE IF quoteMid # Null
    THEN blend(quoteMid, Coalesce(outcomeProb, quoteMid), Dec(7, 10))
  ELSE Coalesce(outcomeProb, Dec(5, 10))

resolveMarketProbability(market, orderbook) ==
  LET outcomeProb == getYesProbability(market)
      quoteMid == IF market.bestBid # Null /\ market.bestAsk # Null
                    THEN clampProbability((market.bestBid + market.bestAsk) \div 2)
                    ELSE Null
      orderbookMid == Coalesce(OptField(orderbook, "midpoint"), Null)
  IN  [marketProb |->
         clampProbability(BlendedProbability(outcomeProb, quoteMid,
                                             orderbookMid)),
       spreadBps |-> resolveSpreadBps(market, orderbook)]

\* the `composite` local of computeMomentumDislocation
MomentumComposite(oneHour, oneDay, hourWeight) ==
  FMul(Coalesce(oneHour, 0), hourWeight)
    + FMul(Coalesce(oneDay, Coalesce(oneHour, 0)), Micro - hourWeight)

\* the record with an adjustment that follows the composite change
MomentumOfTrend(composite) ==
  [score |-> clamp(FDiv(Abs(composite), Dec(6, 100)), 0, Micro),
   fairAdjustment |->
     clamp(FMul(composite, Dec(35, 100)), 0 - Dec(12, 100), Dec(12, 100)),
   hasData |-> TRUE]

\* the record computeMomentumDislocation returns when it has data
MomentumOf(composite) ==
  [score |-> clamp(FDiv(Abs(composite), Dec(6, 100)), 0, Micro),
   fairAdjustment |->
     clamp(FMul(0 - composite, Dec(35, 100)), 0 - Dec(12, 100), Dec(12, 100)),
   hasData |-> TRUE]

computeMomentumDislocation(market, timeHorizonHours) ==
  LET oneHour == market.oneHourPriceChange
      oneDay == market.oneDayPriceChange
      horizon == clamp(timeHorizonHours, 1, 168)
      hourWeight == clamp(Dec(8, 10) - FDiv(horizon - 1, 120),
                          Dec(2, 10), Dec(8, 10))
  IN  IF oneHour = Null /\ oneDay = Null
        THEN [score |-> 0, fairAdjustment |-> 0, hasData |-> FALSE]
        ELSE MomentumOf(MomentumComposite(oneHour, oneDay, hourWeight))

\* the loop of dedupeById over markets[i..], output being the list so far
RECURSIVE DedupeFrom(_, _, _)
DedupeFrom(markets, i, output) ==
  IF i > Len(markets) THEN output
  ELSE DedupeFrom(markets, i + 1,
                  IF \E j \in 1..Len(output) : output[j].id = markets[i].id
                    THEN output
                    ELSE Append(output, markets[i]))

dedupeById(markets) == DedupeFrom(markets, 1, <<>>)

\* values.reduce((acc, value) => acc + value, 0)
SumSeq(values) ==
  LET acc[i \in 0..Len(values)] ==
        IF i = 0 THEN 0 ELSE acc[i - 1] + values[i]
  IN  acc[Len(values)]

\* peers.map(getYesProbability).filter(notNull)
PeerProbabilities(peers) ==
  LET IsProb(p) == p # Null
  IN  SelectSeq([i \in 1..Len(peers) |-> getYesProbability(peers[i])], IsProb)

\* 0.000_001
SCORE_EPSILON == 1

\* the record computePartitionConsistency returns on its three early exits
NoPartition(peers) ==
  [score |-> 0, fairAdjustment |-> 0, partitionDislocation |-> Null,
   peerCount |-> Max(0, Len(peers) - 1)]

\* computePartitionConsistency from `const sum` on, its adjustment uncapped
PartitionOfSumUncapped(marketProb, peers, sum) ==
  LET dislocation == Micro - sum
      share == clamp(FDiv(marketProb, Max(sum, SCORE_EPSILON)),
                     Dec(5, 100), Dec(95, 100))
  IN  IF sum < Dec(6, 10) \/ sum > Dec(14, 10) THEN NoPartition(peers)
      ELSE [score |-> clamp(FDiv(Abs(dislocation), Dec(25, 100)), 0, Micro),
            fairAdjustment |-> FMul(FMul(dislocation, share), Dec(75, 100)),
            partitionDislocation |-> dislocation,
            peerCount |-> Max(0, Len(peers) - 1)]

\* computePartitionConsistency from `const sum` on
PartitionOfSum(marketProb, peers, sum) ==
  LET dislocation == Micro - sum
      share == clamp(FDiv(marketProb, Max(sum, SCORE_EPSILON)),
                     Dec(5, 100), Dec(95, 100))
  IN  IF sum < Dec(6, 10) \/ sum > Dec(14, 10) THEN NoPartition(peers)
      ELSE [score |-> clamp(FDiv(Abs(dislocation), Dec(25, 100)), 0, Micro),
            fairAdjustment |->
              clamp(FMul(FMul(dislocation, share), Dec(75, 100)),
                    0 - Dec(2, 10), Dec(2, 10)),
            partitionDislocation |-> dislocation,
            peerCount |-> Max(0, Len(peers) - 1)]

\* computePartitionConsistency without its test of probabilities.length
PartitionOfProbabilitiesAnyCount(marketProb, peers, probabilities) ==
  PartitionOfSum(marketProb, peers, SumSeq(probabilities))

\* computePartitionConsistency from `const probabilities` on
PartitionOfProbabilities(marketProb, peers, probabilities) ==
  IF Len(probabilities) < 3 THEN NoPartition(peers)
  ELSE PartitionOfSum(marketProb, peers, SumSeq(probabilities))

\* computePartitionConsistency after `const peers`
PartitionOfPeers(marketProb, peers) ==
  IF Len(peers) < 3 THEN NoPartition(peers)
  ELSE PartitionOfProbabilities(marketProb, peers, PeerProbabilities(peers))

computePartitionConsistency(market, marketProb, relatedMarkets) ==
  LET IsOpen(item) == item.active /\ ~item.closed
  IN  PartitionOfPeers(marketProb,
                       SelectSeq(dedupeById(<<market>> \o relatedMarkets),
                                 IsOpen))

scoreSpreadQuality(spreadBps) ==
  IF spreadBps = Null THEN Dec(2, 10)
  ELSE Micro - clamp(FDiv(spreadBps - 2500, 47500), 0, Micro)

scoreLiquidityDepthQuality(market, orderbook) ==
  LET liquidityScore ==
        IF market.liquidity = Null THEN 0
        ELSE clamp(Log10(market.liquidity + 1) \div 5, 0, Micro)
      volumeScore ==
        IF market.volume24hr = Null THEN 0
        ELSE clamp(Log10(market.volume24hr + 1) \div 6, 0, Micro)
      twoSided ==
        IF (OptField(orderbook, "bestBid") # Null
              /\ OptField(orderbook, "bestAsk") # Null)
             \/ (market.bestBid # Null /\ market.bestAsk # Null)
          THEN 1 ELSE 0
  IN  clamp(FMul(liquidityScore, Dec(55, 100)) + FMul(volumeScore, Dec(3, 10))
              + twoSided * Dec(15, 100),
            0, Micro)

\* A string that may hold a time is the pair of what Number(text) and
\* Date.parse(text) make of it, each a number of milliseconds or NaN.
\* Date.parse(text):
DateParse(text) == text.date

\* Number(text)
NumberOf(text) == text.number

IsFinite(x) == x # NaN

\* computeOrderbookAgeMinutes without the rounding of its result
computeOrderbookAgeMinutesUnrounded(orderbook, nowIso) ==
  IF orderbook = NullOrderbook THEN Null
  ELSE LET orderbookTime == DateParse(orderbook.timestamp)
           nowTime == DateParse(nowIso)
       IN  IF ~IsFinite(orderbookTime) \/ ~IsFinite(nowTime) THEN Null
           ELSE Max(0, FDiv(nowTime - orderbookTime, 60000))

computeOrderbookAgeMinutes(orderbook, nowIso) ==
  IF orderbook = NullOrderbook THEN Null
  ELSE LET orderbookTime == DateParse(orderbook.timestamp)
           nowTime == DateParse(nowIso)
       IN  IF ~IsFinite(orderbookTime) \/ ~IsFinite(nowTime) THEN Null
           ELSE round2(Max(0, FDiv(nowTime - orderbookTime, 60000)))

DEFAULT_THRESHOLDS ==
  [lowVolume24h |-> 250, moderateVolume24h |-> 2500,
   staleAfterMinutes |-> 20 * Micro, veryStaleAfterMinutes |-> 60 * Micro]

DEFAULT_WEIGHTS ==
  [spreadQuality |-> Dec(23, 100), liquidityDepthQuality |-> Dec(25, 100),
   momentumDislocation |-> Dec(18, 100),
   relatedMarketConsistency |-> Dec(18, 100), edgeMagnitude |-> Dec(16, 100)]

computePenalties(market, orderbook, nowIso, thresholds) ==
  LET lowActivityPenalty ==
        IF market.volume24hr = Null
             \/ market.volume24hr < thresholds.lowVolume24h
          THEN Dec(16, 100)
        ELSE IF market.volume24hr < thresholds.moderateVolume24h
          THEN Dec(8, 100)
        ELSE 0
      ageMinutes == computeOrderbookAgeMinutes(orderbook, nowIso)
      stalePenalty ==
        IF ageMinutes = Null THEN Dec(4, 100)
        ELSE IF ageMinutes >= thresholds.veryStaleAfterMinutes THEN Dec(14, 100)
        ELSE IF ageMinutes >= thresholds.staleAfterMinutes THEN Dec(7, 100)
        ELSE 0
  IN  [stalePenalty |-> stalePenalty, lowActivityPenalty |-> lowActivityPenalty]

\* determineConfidence with the high tier starting at a score of 50
determineConfidenceLowBar(score, edgePct, penalties) ==
  IF score >= 50 * Micro /\ edgePct >= Dec(15, 10) /\ penalties < Dec(9, 100)
    THEN "high"
  ELSE IF score >= 45 * Micro /\ edgePct >= Dec(75, 100)
    THEN "medium"
  ELSE "low"

\* determineConfidence without the penalty test of its first tier
determineConfidenceAnyPenalty(score, edgePct, penalties) ==
  IF score >= 70 * Micro /\ edgePct >= Dec(15, 10) THEN "high"
  ELSE IF score >= 45 * Micro /\ edgePct >= Dec(75, 100) THEN "medium"
  ELSE "low"

determineConfidence(score, edgePct, penalties) ==
  IF score >= 70 * Micro /\ edgePct >= Dec(15, 10) /\ penalties < Dec(9, 100)
    THEN "high"
  ELSE IF score >= 45 * Micro /\ edgePct >= Dec(75, 100)
    THEN "medium"
  ELSE "low"

\* rationale.push(text) when cond holds
PushIf(list, cond, text) == IF cond THEN Append(list, text) ELSE list

RationaleEdge == "Fair-value proxy diverges from market by N%."
RationaleSpread == "Spread quality is favorable (N bps)."
RationaleLiquidity == "Liquidity and two-sided depth support executable pricing."
RationaleMomentum ==
  "Recent short-term move looks dislocated versus microstructure baseline."
RationalePartition == "Related market partition drift is N%."
RationaleGeneric ==
  "Composite microstructure signals indicate a modest opportunity."

\* buildRationale without the fallback sentence
buildRationaleNoFallback(edgePct, spreadBps, componentScores, partitionDislocation) ==
  PushIf(<<>>, edgePct >= Dec(75, 100), RationaleEdge)

buildRationale(edgePct, spreadBps, componentScores, partitionDislocation) ==
  LET r1 == PushIf(<<>>, edgePct >= Dec(75, 100), RationaleEdge)
      r2 == PushIf(r1, spreadBps # Null
                         /\ componentScores.spreadQuality >= Dec(65, 100),
                   RationaleSpread)
      r3 == PushIf(r2, componentScores.liquidityDepthQuality >= Dec(6, 10),
                   RationaleLiquidity)
      r4 == PushIf(r3, componentScores.momentumDislocation >= Dec(45, 100),
                   RationaleMomentum)
      r5 == PushIf(r4, partitionDislocation # Null
                         /\ componentScores.relatedMarketConsistency
                              >= Dec(35, 100),
                   RationalePartition)
  IN  PushIf(r5, Len(r5) = 0, RationaleGeneric)

\* buildRiskFlags with the volume test ahead of the liquidity test
buildRiskFlagsVolumeFirst(spreadBps, market, orderbook, nowIso, confidence, thresholds, hasMomentumData) ==
  LET f1 == IF spreadBps = Null THEN <<"missing spread data">>
            ELSE IF spreadBps > 40000 THEN <<"wide spread execution risk">>
            ELSE <<>>
      f2 == PushIf(f1, market.volume24hr = Null
                         \/ market.volume24hr < thresholds.lowVolume24h,
                   "low 24h activity")
      f3 == PushIf(f2, market.liquidity = Null \/ market.liquidity < 1000,
                   "thin liquidity")
      ageMinutes == computeOrderbookAgeMinutes(orderbook, nowIso)
      f4 == PushIf(f3, ageMinutes # Null
                         /\ ageMinutes >= thresholds.veryStaleAfterMinutes,
                   "stale orderbook snapshot")
      f5 == PushIf(f4, ~hasMomentumData, "limited momentum history")
      f6 == PushIf(f5, confidence = "low", "low confidence signal")
  IN  PushIf(f6, Len(f6) = 0, "educational signal only")

buildRiskFlags(spreadBps, market, orderbook, nowIso, confidence, thresholds, hasMomentumData) ==
  LET f1 == IF spreadBps = Null THEN <<"missing spread data">>
            ELSE IF spreadBps > 40000 THEN <<"wide spread execution risk">>
            ELSE <<>>
      f2 == PushIf(f1, market.liquidity = Null \/ market.liquidity < 1000,
                   "thin liquidity")
      f3 == PushIf(f2, market.volume24hr = Null
                         \/ market.volume24hr < thresholds.lowVolume24h,
                   "low 24h activity")
      ageMinutes == computeOrderbookAgeMinutes(orderbook, nowIso)
      f4 == PushIf(f3, ageMinutes # Null
                         /\ ageMinutes >= thresholds.veryStaleAfterMinutes,
                   "stale orderbook snapshot")
      f5 == PushIf(f4, ~hasMomentumData, "limited momentum history")
      f6 == PushIf(f5, confidence = "low", "low confidence signal")
  IN  PushIf(f6, Len(f6) = 0, "educational signal only")

(***************************************************************************)
(* scoreMispricingCandidate.  Its locals are computed in source order;     *)
(* each step below takes the record l of the locals so far and adds its    *)
(* own.                                                                    *)
(***************************************************************************)
\* the destructured input, with the default weights and thresholds
ScoreArguments(market, orderbook, relatedMarkets, nowIso, timeHorizonHours) ==
  [market |-> market, orderbook |-> orderbook,
   relatedMarkets |-> relatedMarkets, nowIso |-> nowIso,
   timeHorizonHours |-> timeHorizonHours,
   weights |-> DEFAULT_WEIGHTS, thresholds |-> DEFAULT_THRESHOLDS]

\* probability (marketProb, spreadBps) and momentum
WithProbability(l) ==
  l @@ [probability |-> resolveMarketProbability(l.market, l.orderbook),
        momentum |-> computeMomentumDislocation(l.market, l.timeHorizonHours)]

\* consistency
WithConsistency(l) ==
  l @@ [marketProb |-> l.probability.marketProb,
        spreadBps |-> l.probability.spreadBps,
        consistency |->
          computePartitionConsistency(l.market, l.probability.marketProb,
                                      l.relatedMarkets)]

\* fairProbProxy
WithFairProbProxy(l) ==
  l @@ [fairProbProxy |->
          clampProbability(l.marketProb + l.momentum.fairAdjustment
                             + l.consistency.fairAdjustment)]

\* signedEdge, side, edgePct with YES kept for a positive edge only
WithEdgeStrict(l) ==
  LET signedEdge == l.fairProbProxy - l.marketProb
  IN  l @@ [side |-> IF signedEdge > 0 THEN "YES" ELSE "NO",
            edgePct |-> Abs(signedEdge) * 100]

\* signedEdge, side, edgePct
WithEdge(l) ==
  LET signedEdge == l.fairProbProxy - l.marketProb
  IN  l @@ [side |-> IF signedEdge >= 0 THEN "YES" ELSE "NO",
            edgePct |-> Abs(signedEdge) * 100]

\* componentScores, penalties
WithComponents(l) ==
  l @@ [componentScores |->
          [spreadQuality |-> scoreSpreadQuality(l.spreadBps),
           liquidityDepthQuality |->
             scoreLiquidityDepthQuality(l.market, l.orderbook),
           momentumDislocation |-> l.momentum.score,
           relatedMarketConsistency |-> l.consistency.score,
           edgeMagnitude |-> clamp(l.edgePct \div 4, 0, Micro)],
        penalties |->
          computePenalties(l.market, l.orderbook, l.nowIso, l.thresholds)]

\* penaltyTotal, weightedScore, mispricingScore
WithScore(l) ==
  LET penaltyTotal == l.penalties.stalePenalty + l.penalties.lowActivityPenalty
      weightedScore ==
        FMul(l.componentScores.spreadQuality, l.weights.spreadQuality)
          + FMul(l.componentScores.liquidityDepthQuality,
                 l.weights.liquidityDepthQuality)
          + FMul(l.componentScores.momentumDislocation,
                 l.weights.momentumDislocation)
          + FMul(l.componentScores.relatedMarketConsistency,
                 l.weights.relatedMarketConsistency)
          + FMul(l.componentScores.edgeMagnitude, l.weights.edgeMagnitude)
  IN  l @@ [penaltyTotal |-> penaltyTotal,
            mispricingScore |->
              clamp((weightedScore - penaltyTotal) * 100, 0, 100 * Micro)]

\* confidence
WithConfidence(l) ==
  l @@ [confidence |->
          determineConfidence(l.mispricingScore, l.edgePct, l.penaltyTotal)]

\* rationale, riskFlags
WithTexts(l) ==
  l @@ [rationale |->
          buildRationale(l.edgePct, l.spreadBps, l.componentScores,
                         l.consistency.partitionDislocation),
        riskFlags |->
          buildRiskFlags(l.spreadBps, l.market, l.orderbook, l.nowIso,
                         l.confidence, l.thresholds, l.momentum.hasData)]

\* signal
WithSignal(l) ==
  l @@ [signal |->
          [marketId |-> l.market.id,
           marketSlug |->
             IF l.market.slug = NullStr THEN l.market.id ELSE l.market.slug,
           side |-> l.side,
           marketProb |-> round4(l.marketProb),
           fairProbProxy |-> round4(l.fairProbProxy),
           edgePct |-> round2(l.edgePct),
           mispricingScore |-> round2(l.mispricingScore),
           confidence |-> l.confidence,
           rationale |-> l.rationale,
           riskFlags |-> l.riskFlags]]

\* trace and the returned {signal, trace}; spreadBps, kept in units of
\* 0.01 bp, is its own round2
ScoreReturn(l) ==
  [signal |-> l.signal,
   trace |->
     [marketId |-> l.signal.marketId,
      marketSlug |-> l.signal.marketSlug,
      marketProb |-> l.signal.marketProb,
      fairProbProxy |-> l.signal.fairProbProxy,
      selectedSide |-> l.signal.side,
      edgePct |-> l.signal.edgePct,
      componentScores |->
        [spreadQuality |-> round4(l.componentScores.spreadQuality),
         liquidityDepthQuality |->
           round4(l.componentScores.liquidityDepthQuality),
         momentumDislocation |-> round4(l.componentScores.momentumDislocation),
         relatedMarketConsistency |->
           round4(l.componentScores.relatedMarketConsistency),
         edgeMagnitude |-> round4(l.componentScores.edgeMagnitude)],
      penalties |->
        [stalePenalty |-> round4(l.penalties.stalePenalty),
         lowActivityPenalty |-> round4(l.penalties.lowActivityPenalty)],
      spreadBps |-> l.spreadBps,
      liquidity |-> l.market.liquidity,
      volume24h |-> l.market.volume24hr,
      orderbookAgeMinutes |->
        computeOrderbookAgeMinutes(l.orderbook, l.nowIso),
      peerCount |-> l.consistency.peerCount,
      partitionDislocation |->
        IF l.consistency.partitionDislocation = Null THEN Null
        ELSE round4(l.consistency.partitionDislocation),
      rationale |-> l.rationale,
      riskFlags |-> l.riskFlags]]

\* the locals of scoreMispricingCandidate as they stand at its `return`
ScoreLocalsAtReturn(market, orderbook, relatedMarkets, nowIso, timeHorizonHours) ==
  WithSignal(WithTexts(WithConfidence(WithScore(WithComponents(
    WithEdge(WithFairProbProxy(WithConsistency(WithProbability(
      ScoreArguments(market, orderbook, relatedMarkets, nowIso,
                     timeHorizonHours))))))))))

scoreMispricingCandidate(market, orderbook, relatedMarkets, nowIso, timeHorizonHours) ==
  ScoreReturn(ScoreLocalsAtReturn(market, orderbook, relatedMarkets, nowIso,
                                  timeHorizonHours))

(***************************************************************************)
(* types.ts: rankMispricingSignals                                         *)
(***************************************************************************)
\* localeCompare that calls every two strings equal
localeCompareTied(a, b) == 0

\* a.localeCompare(b) on strings given as tuples of character ranks:
\* negative, zero or positive
RECURSIVE localeCompare(_, _)
localeCompare(a, b) ==
  IF Len(a) = 0 /\ Len(b) = 0 THEN 0
  ELSE IF Len(a) = 0 THEN 0 - 1
  ELSE IF Len(b) = 0 THEN 1
  ELSE IF a[1] # b[1] THEN a[1] - b[1]
  ELSE localeCompare(Tail(a), Tail(b))

\* the comparator without its edgePct tie-break
CompareScoredNoEdge(a, b) ==
  IF b.signal.mispricingScore # a.signal.mispricingScore
    THEN b.signal.mispricingScore - a.signal.mispricingScore
  ELSE localeCompare(a.signal.marketSlug, b.signal.marketSlug)

\* the comparator of scored.sort: negative when a sorts before b
CompareScored(a, b) ==
  IF b.signal.mispricingScore # a.signal.mispricingScore
    THEN b.signal.mispricingScore - a.signal.mispricingScore
  ELSE IF b.signal.edgePct # a.signal.edgePct
    THEN b.signal.edgePct - a.signal.edgePct
  ELSE localeCompare(a.signal.marketSlug, b.signal.marketSlug)

\* item put into an already sorted list, after the items it does not precede
InsertSorted(sorted, item) ==
  LET after == {i \in 1..Len(sorted) : CompareScored(item, sorted[i]) < 0}
      at == IF after = {} THEN Len(sorted) + 1
            ELSE CHOOSE i \in after : \A j \in after : i <= j
  IN  SubSeq(sorted, 1, at - 1) \o <<item>> \o SubSeq(sorted, at, Len(sorted))

\* the insertion of scored[i..] into sorted, in array order
RECURSIVE SortFrom(_, _, _)
SortFrom(scored, i, sorted) ==
  IF i > Len(scored) THEN sorted
  ELSE SortFrom(scored, i + 1, InsertSorted(sorted, scored[i]))

\* Array.prototype.sort with CompareScored: the stable sort
SortScored(scored) == SortFrom(scored, 1, <<>>)

\* an option of the input, or its default when it is omitted
Default(v, d) == IF v = Undefined THEN d ELSE v

\* the minVolume test with <= for <
BelowVolumeInclusive(input, candidate) ==
  /\ input.minVolume # Undefined
  /\ (candidate.market.volume24hr = Null
        \/ candidate.market.volume24hr <= input.minVolume)

\* the minVolume test with an unknown volume let through
BelowVolumeWhenKnown(input, candidate) ==
  /\ input.minVolume # Undefined
  /\ candidate.market.volume24hr # Null
  /\ candidate.market.volume24hr < input.minVolume

\* `(candidate.market.volume24hr ?? -Infinity) < minVolume`
BelowVolume(input, candidate) ==
  /\ input.minVolume # Undefined
  /\ (candidate.market.volume24hr = Null
        \/ candidate.market.volume24hr < input.minVolume)

\* the maxSpreadBps test on previewSpread
\* the spread test with an unresolved spread counting as above the maximum
AboveSpreadOrMissing(input, previewSpread) ==
  /\ input.maxSpreadBps # Undefined
  /\ (previewSpread = Null \/ previewSpread > input.maxSpreadBps)

AboveSpread(input, previewSpread) ==
  /\ input.maxSpreadBps # Undefined
  /\ previewSpread # Null
  /\ previewSpread > input.maxSpreadBps

\* the end of the loop body: result is dropped or pushed onto scored
PushScored(input, scored, result) ==
  IF result.signal.edgePct + SCORE_EPSILON < Default(input.minEdgePct, 0)
    THEN scored
    ELSE Append(scored, result)

\* one pass of the loop body of rankMispricingSignals
ScoreStep(input, scored, candidate) ==
  IF BelowVolume(input, candidate) THEN scored
  ELSE IF AboveSpread(input,
                      resolveSpreadBps(candidate.market, candidate.orderbook))
    THEN scored
  ELSE PushScored(input, scored,
                  scoreMispricingCandidate(
                    candidate.market, candidate.orderbook,
                    candidate.relatedMarkets, input.nowIso,
                    Default(input.timeHorizonHours, 24)))

\* the loop over candidates[i..], scored being the array so far
RECURSIVE ScoreLoop(_, _, _)
ScoreLoop(input, i, scored) ==
  IF i > Len(input.candidates) THEN scored
  ELSE ScoreLoop(input, i + 1, ScoreStep(input, scored, input.candidates[i]))

\* the `scored` array of rankMispricingSignals when its loop is over
ScoredCandidates(input) == ScoreLoop(input, 1, <<>>)

\* `traces: undefined`
NoTraces == <<Undefined>>

\* scored.slice(0, Math.max(0, limit)) of the sorted array
Trimmed(sorted, limit) == SubSeq(sorted, 1, Min(Len(sorted), Max(0, limit)))

\* the returned {signals, traces}
RankReturn(input, trimmed) ==
  [signals |-> [i \in 1..Len(trimmed) |-> trimmed[i].signal],
   traces |-> IF input.includeTrace
                THEN [i \in 1..Len(trimmed) |-> trimmed[i].trace]
                ELSE NoTraces]

rankMispricingSignals(input) ==
  RankReturn(input, Trimmed(SortScored(ScoredCandidates(input)),
                            Default(input.limit, 20)))

(***************************************************************************)
(* types.ts: toOrderbookSnapshot                                           *)
(***************************************************************************)
\* the loop of findBestBid over levels[i..]
RECURSIVE BestBidFrom(_, _, _)
BestBidFrom(levels, i, best) ==
  IF i > Len(levels) THEN best
  ELSE BestBidFrom(levels, i + 1,
                   IF best = Null \/ levels[i].price > best
                     THEN levels[i].price ELSE best)

\* findBestBid that trusts the first level to be the best
findBestBidFirst(orderbook) ==
  IF Len(orderbook.bids) = 0 THEN Null ELSE orderbook.bids[1].price

findBestBid(orderbook) ==
  IF Len(orderbook.bids) = 0 THEN Null
  ELSE BestBidFrom(orderbook.bids, 1, orderbook.bids[1].price)

\* the loop of findBestAsk over levels[i..]
RECURSIVE BestAskFrom(_, _, _)
BestAskFrom(levels, i, best) ==
  IF i > Len(levels) THEN best
  ELSE BestAskFrom(levels, i + 1,
                   IF best = Null \/ levels[i].price < best
                     THEN levels[i].price ELSE best)

findBestAsk(orderbook) ==
  IF Len(orderbook.asks) = 0 THEN Null
  ELSE BestAskFrom(orderbook.asks, 1, orderbook.asks[1].price)

\* The largest time value of a Date is 8.64e15 ms, more than the integers of
\* the model hold: the model places it at 2e9 ms and keeps the time of every
\* other number and date below it.
MaxTimeValue == 2 * 1000000000

\* the RangeError of toISOString() on an invalid Date
InvalidTime == [thrown |-> "RangeError: Invalid time value"]

\* new Date(ms).toISOString(): the ISO text is the pair of what Number and
\* Date.parse make of it
ToISOString(ms) ==
  IF ms > MaxTimeValue \/ ms < 0 - MaxTimeValue THEN InvalidTime
  ELSE [number |-> NaN, date |-> ms]

normalizeTimestamp(timestamp) ==
  IF IsFinite(NumberOf(timestamp)) /\ NumberOf(timestamp) > 0
    THEN ToISOString(NumberOf(timestamp))
  ELSE IF IsFinite(DateParse(timestamp))
    THEN ToISOString(DateParse(timestamp))
  ELSE timestamp

\* toOrderbookSnapshot from `const midpoint` on; a throw of normalizeTimestamp
\* leaves the function
SnapshotOf(orderbook, bestBid, bestAsk) ==
  LET midpoint == IF bestBid # Null /\ bestAsk # Null
                    THEN (bestBid + bestAsk) \div 2 ELSE Null
      spreadBps == IF midpoint # Null /\ midpoint > 0
                        /\ bestBid # Null /\ bestAsk # Null
                     THEN FDiv(bestAsk - bestBid, midpoint) ELSE Null
  IN  IF normalizeTimestamp(orderbook.timestamp) = InvalidTime THEN InvalidTime
      ELSE [tokenId |-> orderbook.assetId,
            bestBid |-> bestBid,
            bestAsk |-> bestAsk,
            midpoint |->
              IF midpoint = Null THEN Null ELSE clampProbability(midpoint),
            spreadBps |-> IF spreadBps = Null THEN Null ELSE Max(0, spreadBps),
            timestamp |-> normalizeTimestamp(orderbook.timestamp)]

toOrderbookSnapshot(orderbook) ==
  SnapshotOf(orderbook, findBestBid(orderbook), findBestAsk(orderbook))

(***************************************************************************)
(* The scan (scanPolymarketMispricing): its constants and pure helpers     *)
(***************************************************************************)
DEFAULT_LIMIT == 20
MAX_LIMIT == 50
DEFAULT_FETCH_MULTIPLIER == 5
MAX_FETCH_LIMIT == 500
\* 800 bps
DEFAULT_MAX_SPREAD_BPS == 800 * 100
DEFAULT_TIME_HORIZON_HOURS == 24
MIN_TIME_HORIZON_HOURS == 1
MAX_TIME_HORIZON_HOURS == 168
DEFAULT_CONCURRENCY == 6
MAX_CONCURRENCY == 12

\* a whole number as a limit or a concurrency of the input, and back
Tenths(n) == n * 10
Whole(t) == t \div 10

\* Number.isInteger on a limit or a concurrency
IsInteger(t) == t % 10 = 0

\* what a normalize function yields when it throws
Throws == 0 - 1000000003

\* normalizePositiveInteger that takes the fallback for a value it should reject
normalizePositiveIntegerLenient(value, fallback, max) ==
  LET normalized == Coalesce(value, fallback)
  IN  IF ~IsFinite(normalized) \/ ~IsInteger(normalized) \/ normalized <= 0
        THEN Min(fallback, max)
        ELSE Min(normalized, max)

\* value, fallback and max in tenths
normalizePositiveInteger(value, fallback, max) ==
  LET normalized == Coalesce(value, fallback)
  IN  IF ~IsFinite(normalized) \/ ~IsInteger(normalized) \/ normalized <= 0
        THEN Throws
      ELSE IF max = Undefined THEN normalized
      ELSE Min(normalized, max)

normalizePositiveNumber(value, fallback) ==
  LET normalized == Coalesce(value, fallback)
  IN  IF ~IsFinite(normalized) \/ normalized <= 0 THEN Throws ELSE normalized

normalizeNonNegativeNumber(value, fallback) ==
  LET normalized == Coalesce(value, fallback)
  IN  IF ~IsFinite(normalized) \/ normalized < 0 THEN Throws ELSE normalized

normalizeBoundedNumber(value, fallback, min, max) ==
  LET normalized == Coalesce(value, fallback)
  IN  IF ~IsFinite(normalized) \/ normalized <= 0 THEN Throws
      ELSE Min(max, Max(min, normalized))

\* the error a throwing normalizeInput leaves, or its return value
Thrown(message) == [threw |-> TRUE, error |-> message]

\* normalizeInput once its five values are computed, in the order of the calls
NormalizedOf(input, limit, minVolume, maxSpreadBps, timeHorizonHours, concurrency) ==
  IF limit = Throws
    THEN Thrown("limit and concurrency must be positive integers.")
  ELSE IF minVolume = Throws
    THEN Thrown("minVolume must be a non-negative number.")
  ELSE IF maxSpreadBps = Throws
    THEN Thrown("maxSpreadBps must be a positive number.")
  ELSE IF timeHorizonHours = Throws
    THEN Thrown("timeHorizonHours must be a positive number.")
  ELSE IF concurrency = Throws
    THEN Thrown("limit and concurrency must be positive integers.")
  ELSE [threw |-> FALSE,
        query |-> input.query,
        limit |-> Whole(limit),
        minVolume |-> minVolume,
        maxSpreadBps |-> maxSpreadBps,
        timeHorizonHours |-> timeHorizonHours,
        concurrency |-> Whole(concurrency),
        includeTrace |-> input.includeTrace = TRUE]

normalizeInput(input) ==
  NormalizedOf(
    input,
    normalizePositiveInteger(input.limit, Tenths(DEFAULT_LIMIT),
                             Tenths(MAX_LIMIT)),
    normalizeNonNegativeNumber(input.minVolume, 0),
    normalizePositiveNumber(input.maxSpreadBps, DEFAULT_MAX_SPREAD_BPS),
    normalizeBoundedNumber(input.timeHorizonHours, DEFAULT_TIME_HORIZON_HOURS,
                           MIN_TIME_HORIZON_HOURS, MAX_TIME_HORIZON_HOURS),
    normalizePositiveInteger(input.concurrency, Tenths(DEFAULT_CONCURRENCY),
                             Tenths(MAX_CONCURRENCY)))

\* Texts (queries, questions, token ids, event ids) are strings; these two
\* stand for a text that is undefined and one that is null.
UndefinedText == "(undefined)"
NullText == "(null)"

\* text.trim() on the texts of the model
Trim(text) ==
  CASE text = " " -> ""
    [] text = " e1 " -> "e1"
    [] text = " Fed " -> "Fed"
    [] OTHER -> text

\* text.toLowerCase() on the texts of the model
ToLowerCase(text) ==
  CASE text = "Fed" -> "fed"
    [] text = "Will the Fed cut?" -> "will the fed cut?"
    [] text = "Rain tomorrow?" -> "rain tomorrow?"
    [] OTHER -> text

\* !text
Falsy(text) == text = UndefinedText \/ text = NullText \/ text = ""

normalizeQuery(input) ==
  IF Falsy(input) THEN NullText
  ELSE IF ToLowerCase(Trim(input)) = "" THEN NullText
  ELSE ToLowerCase(Trim(input))

\* haystack.includes(term) for the one-term queries of the model; the slugs of
\* the model hold none of its letters, so the question decides
Includes(question, term) ==
  ToLowerCase(question) = "will the fed cut?" /\ term = "fed"

matchesQuery(market, query) ==
  IF Falsy(query) THEN TRUE
  ELSE Includes(IF market.question = NullText THEN "" ELSE market.question,
                query)

\* market.eventId?.trim()
EventKey(market) ==
  IF market.eventId = NullText THEN UndefinedText ELSE Trim(market.eventId)

\* getRelatedMarkets(groupByEventId(markets), market)
getRelatedMarkets(markets, market) ==
  LET IsPeer(peer) ==
        /\ ~Falsy(EventKey(peer))
        /\ EventKey(peer) = EventKey(market)
        /\ peer.id # market.id
  IN  IF Falsy(EventKey(market)) THEN <<>> ELSE SelectSeq(markets, IsPeer)

\* clobTokenIds[i] ?? clobTokenIds[0] ?? null, i counted from 1
TokenAt(clobTokenIds, i) ==
  IF i <= Len(clobTokenIds) THEN clobTokenIds[i] ELSE clobTokenIds[1]

resolveReferenceTokenId(market) ==
  IF Len(market.clobTokenIds) = 0 THEN NullText
  ELSE TokenAt(market.clobTokenIds,
               IF FindIndexYes(market.outcomes) >= 1
                 THEN FindIndexYes(market.outcomes) ELSE 1)

\* the scanCandidates of a listing
IsScanCandidate(market, query) ==
  /\ market.active /\ ~market.closed /\ market.acceptingOrders
  /\ Len(market.clobTokenIds) > 0
  /\ matchesQuery(market, query)

\* one worker per candidate
PoolWorkersPerItem(concurrency, length) == length

\* `workers` of mapWithConcurrency
PoolWorkers(concurrency, length) == Max(1, Min(concurrency, length))

\* the warning of a candidate without a token id
SkippedWarning(market) == [text |-> "Skipped: missing tokenId.", of |-> market.id]

\* the warning of a candidate whose order book could not be had
FailedWarning(market) ==
  [text |-> "Failed orderbook",
   of |-> IF market.slug = NullStr THEN market.id ELSE market.slug]

\* a catch block that records nothing
CatchFetchErrorSilently(warnings, market) == warnings

\* the catch block of the mapper: warnings.push(...)
CatchFetchError(warnings, market) == Append(warnings, FailedWarning(market))

(***************************************************************************)
(* State                                                                   *)
(***************************************************************************)
VARIABLES
  scoreInput,    \* the argument of a scoreMispricingCandidate call
  scoreResult,   \* its {signal, trace}, or Pending before the call returns
  scoreLocals,   \* its local variables, unrounded, as they stood at the
                 \* return; Pending before
  rankInput,     \* the argument of a rankMispricingSignals call
  rankScored,    \* its local `scored` array as it stood before the sort
  rankResult,    \* its {signals, traces}, or Pending
  rankSwap,      \* a second call: the position swapped with its successor
  rankAgain,     \* the second call's {signals, traces}, or Pending
  scanPc,        \* where scanPolymarketMispricing stands: "start", "listing"
                 \* (awaiting listMarkets), "pool" (awaiting
                 \* mapWithConcurrency), "done"; "idle" when there is no scan
  scanInput,     \* its argument
  normalized,    \* its local `normalized`
  listRequest,   \* the params of the listMarkets request, once it is sent
  nowIso,        \* its local `nowIso`
  scanCandidates,\* its local `scanCandidates`
  index,         \* mapWithConcurrency: the shared cursor
  workers,       \* mapWithConcurrency: per worker, what it awaits and its
                 \* currentIndex
  results,       \* mapWithConcurrency: the `results` array
  warnings,      \* the `warnings` array
  microtasks,    \* the workers whose awaited mapper promise is settled, in
                 \* the order in which they will resume
  fetchLog,      \* per candidate: the calls of the mapper on it, the
                 \* getOrderbookSummary requests sent for it and how the
                 \* last one ended
  handed,        \* the `scoredCandidates` handed to rankMispricingSignals
  scanResult,    \* the PolymarketScanResult, or Pending
  snapshotInput, \* the argument of a toOrderbookSnapshot call
  snapshotResult \* its OrderbookSnapshot, InvalidTime when it threw, or
                 \* Pending

\* cli chat (runChat): the closure variables of the REPL and of its running
\* turn, and a record of what was typed
VARIABLES
  chatPc,             \* "prompt" (awaiting rl.question), "responding"
                      \* (runTurn awaiting the agent), "exited"; "idle" when
                      \* no chat runs
  messages,           \* `messages`
  turnHistory,        \* `turnHistory`
  lastRetriableInput, \* `lastRetriableInput`
  currentAbort,       \* `currentAbort`: NoAbort or the turn's controller
  awaitingInput,      \* `awaitingInput`
  sigintCount,        \* `sigintCount`
  verbose,            \* `verbose`
  turnInput,          \* runTurn: its `input`
  turnStartIndex,     \* runTurn: its `turnStartIndex`
  linesRead,          \* the number of lines read at the prompt so far
  lastLine,           \* the last line read
  atLastLine,         \* `messages` and `turnFound` as the last line found them
  submitted,          \* the last chat input typed, with `messages` as it
                      \* found them
  turnFound           \* per turn of turnHistory, `messages` as its input
                      \* found them

\* oc-cli chat (runChat of repl.ts): the closure variables of the REPL, and a
\* record of the Ctrl+C presses
VARIABLES
  ocPc,               \* "prompt" (awaiting rl.question), "starting"
                      \* (awaiting ensureReady), "subscribing" (awaiting
                      \* event.subscribe), "responding" (awaiting the stream
                      \* and the prompt request), "aborting" (awaiting
                      \* session.abort), "resetting" (awaiting resetSession),
                      \* "exited"; "idle" when no chat runs
  ocRuntime,          \* `runtime` is not null
  ocSessionId,        \* `sessionId` is not null
  ocCurrentAbort,     \* `currentAbort`: NoAbort or the turn's controller
  ocAwaitingInput,    \* `awaitingInput`
  ocSigintCount,      \* `sigintCount`
  ocVerbose,          \* `verbose`
  ocLinesRead,        \* the number of lines read at the prompt so far
  ocPresses,          \* the Ctrl+C presses at the prompt since the last line
  ocExit              \* how the process ended, or Pending

scoreVars == <<scoreInput, scoreResult, scoreLocals>>
rankVars == <<rankInput, rankScored, rankResult, rankSwap, rankAgain>>
poolVars == <<index, workers, results, warnings, microtasks, fetchLog>>
scanVars ==
  <<scanPc, scanInput, normalized, listRequest, nowIso, scanCandidates,
    poolVars, handed, scanResult>>
snapVars == <<snapshotInput, snapshotResult>>

\* the variables of the programs modelled further down
chatVars ==
  <<chatPc, messages, turnHistory, lastRetriableInput, currentAbort,
    awaitingInput, sigintCount, verbose, turnInput, turnStartIndex, linesRead,
    lastLine, atLastLine, submitted, turnFound>>

ocVars ==
  <<ocPc, ocRuntime, ocSessionId, ocCurrentAbort, ocAwaitingInput,
    ocSigintCount, ocVerbose, ocLinesRead, ocPresses, ocExit>>

extraVars == <<snapVars, chatVars, ocVars>>
vars == <<scoreVars, rankVars, scanVars, extraVars>>

\* no value yet
Pending == [pending |-> TRUE]

(***************************************************************************)
(* The inputs the scorer is run on                                         *)
(***************************************************************************)
MaxRelated == 2

\* new Date(ms).toISOString()
Timestamp(ms) == [number |-> NaN, date |-> ms]

\* a string that is neither a number nor a date
BadTimestamp == [number |-> NaN, date |-> NaN]

\* 2 hours after the epoch, in milliseconds
NowMs == 2 * 60 * 60000

OutcomeShapes ==
  { [outcomes |-> <<>>, outcomePrices |-> <<>>],
    [outcomes |-> <<"Yes", "No">>,
     outcomePrices |-> <<Dec(30, 100), Dec(70, 100)>>],
    [outcomes |-> <<"Down", " yes ">>,
     outcomePrices |-> <<Dec(4, 1000), Dec(996, 1000)>>] }

Quotes ==
  { [bestBid |-> Null, bestAsk |-> Null],
    [bestBid |-> Dec(42, 100), bestAsk |-> Dec(46, 100)],
    [bestBid |-> Dec(29, 100), bestAsk |-> Null] }

Spreads == {Null, Dec(2, 1000)}
Liquidities == {Null, 999, 99999}
Volumes == {Null, 2499, 999999}

Momenta ==
  { [oneHour |-> Null, oneDay |-> Null],
    [oneHour |-> Dec(213, 10000), oneDay |-> Dec(213, 10000)],
    [oneHour |-> Dec(5, 100), oneDay |-> Null],
    [oneHour |-> 0 - Dec(40, 100), oneDay |-> 0 - Dec(40, 100)] }

MakeMarket(id, slug, shape, quote, spread, liquidity, volume24hr, momentum, active, closed) ==
  [id |-> id, slug |-> slug,
   outcomes |-> shape.outcomes, outcomePrices |-> shape.outcomePrices,
   active |-> active, closed |-> closed,
   volume24hr |-> volume24hr, liquidity |-> liquidity,
   bestBid |-> quote.bestBid, bestAsk |-> quote.bestAsk, spread |-> spread,
   oneHourPriceChange |-> momentum.oneHour,
   oneDayPriceChange |-> momentum.oneDay]

SubjectMarkets ==
  { MakeMarket(<<1>>, <<1>>, shape, quote, spread, liquidity, volume24hr,
               momentum, TRUE, FALSE) :
      shape \in OutcomeShapes, quote \in Quotes, spread \in Spreads,
      liquidity \in Liquidities, volume24hr \in Volumes, momentum \in Momenta }

\* a sibling market of the subject's event
Peer(id, price, closed) ==
  MakeMarket(id, id,
             [outcomes |-> <<"Yes", "No">>,
              outcomePrices |-> <<price, Micro - price>>],
             [bestBid |-> Null, bestAsk |-> Null], Null, 99999, 999999,
             [oneHour |-> Null, oneDay |-> Null], TRUE, closed)

PeerPool ==
  <<Peer(<<2>>, Dec(30, 100), FALSE), Peer(<<3>>, Dec(5, 100), TRUE),
    Peer(<<3>>, Dec(30, 100), FALSE), Peer(<<4>>, Dec(5, 100), FALSE)>>

\* the position of peer in the pool
PoolIndex(peer) == CHOOSE k \in 1..Len(PeerPool) : PeerPool[k] = peer

\* the lists of at most n different peers, taken in pool order
RECURSIVE PeerLists(_)
PeerLists(n) ==
  IF n = 0 THEN {<<>>}
  ELSE LET shorter == PeerLists(n - 1)
           Longest == {x \in shorter : Len(x) = n - 1}
           Heads(l) == {k \in 1..Len(PeerPool) :
                          Len(l) > 0 => k < PoolIndex(l[1])}
       IN  shorter \cup
           UNION { { <<PeerPool[k]>> \o l : k \in Heads(l) } : l \in Longest }

Orderbooks ==
  { NullOrderbook,
    [tokenId |-> <<1>>, bestBid |-> Dec(42, 100), bestAsk |-> Dec(46, 100),
     midpoint |-> Dec(44, 100), spreadBps |-> 90909,
     timestamp |-> Timestamp(NowMs - 60000)],
    [tokenId |-> <<1>>, bestBid |-> Null, bestAsk |-> Null,
     midpoint |-> Null, spreadBps |-> Null, timestamp |-> BadTimestamp],
    [tokenId |-> <<1>>, bestBid |-> Dec(129, 100), bestAsk |-> Dec(131, 100),
     midpoint |-> Dec(130, 100), spreadBps |-> 2000,
     timestamp |-> Timestamp(NowMs - 70 * 60000)],
    [tokenId |-> <<1>>, bestBid |-> Dec(30, 100), bestAsk |-> Dec(30, 100),
     midpoint |-> Dec(30, 100), spreadBps |-> 0,
     timestamp |-> BadTimestamp] }

NowIsos == {Timestamp(NowMs), BadTimestamp}
Horizons == {1, 24}

ScoreInputs ==
  [market : SubjectMarkets, orderbook : Orderbooks,
   relatedMarkets : PeerLists(MaxRelated), nowIso : NowIsos,
   timeHorizonHours : Horizons]

(***************************************************************************)
(* SpecScore: scoreMispricingCandidate on every input                      *)
(***************************************************************************)
ScoreIdle ==
  scoreInput = Pending /\ scoreResult = Pending /\ scoreLocals = Pending

SnapshotIdle == snapshotInput = Pending /\ snapshotResult = Pending

\* the programs modelled further down are not running
ChatIdle ==
  /\ chatPc = "idle"
  /\ messages = <<>>
  /\ turnHistory = <<>>
  /\ lastRetriableInput = NullText
  /\ currentAbort = Pending
  /\ awaitingInput = FALSE
  /\ sigintCount = 0
  /\ verbose = FALSE
  /\ turnInput = NullText
  /\ turnStartIndex = 0
  /\ linesRead = 0
  /\ lastLine = NullText
  /\ atLastLine = Pending
  /\ submitted = Pending
  /\ turnFound = <<>>

OcIdle ==
  /\ ocPc = "idle"
  /\ ocRuntime = FALSE
  /\ ocSessionId = FALSE
  /\ ocCurrentAbort = Pending
  /\ ocAwaitingInput = FALSE
  /\ ocSigintCount = 0
  /\ ocVerbose = FALSE
  /\ ocLinesRead = 0
  /\ ocPresses = 0
  /\ ocExit = Pending

ExtraIdle == SnapshotIdle /\ ChatIdle /\ OcIdle

RankIdle ==
  /\ rankInput = Pending
  /\ rankScored = Pending
  /\ rankResult = Pending
  /\ rankSwap = 0
  /\ rankAgain = Pending

ScanIdle ==
  /\ scanPc = "idle"
  /\ scanInput = Pending
  /\ normalized = Pending
  /\ listRequest = Pending
  /\ nowIso = Pending
  /\ scanCandidates = <<>>
  /\ index = 0
  /\ workers = <<>>
  /\ results = <<>>
  /\ warnings = <<>>
  /\ microtasks = <<>>
  /\ fetchLog = <<>>
  /\ handed = Pending
  /\ scanResult = Pending

InitScore ==
  /\ scoreInput \in ScoreInputs
  /\ scoreResult = Pending
  /\ scoreLocals = Pending
  /\ RankIdle
  /\ ScanIdle
  /\ ExtraIdle

ScoreCandidate ==
  /\ scoreResult = Pending
  /\ scoreLocals' =
       ScoreLocalsAtReturn(scoreInput.market, scoreInput.orderbook,
                           scoreInput.relatedMarkets, scoreInput.nowIso,
                           scoreInput.timeHorizonHours)
  /\ scoreResult' = ScoreReturn(scoreLocals')
  /\ UNCHANGED <<scoreInput, rankVars, scanVars, extraVars>>

NextScore == ScoreCandidate

SpecScore == InitScore /\ [][NextScore]_vars

(***************************************************************************)
(* SpecRank: rankMispricingSignals on every batch of at most MaxCandidates *)
(* candidates; SpecRankOrder: a second call on the same candidates, two    *)
(* neighbours swapped                                                      *)
(***************************************************************************)
MaxCandidates == 3

\* a liquid market with a tight quoted spread and the given momentum
LiquidMarket(id, slug, volume24hr, change) ==
  MakeMarket(id, slug,
             [outcomes |-> <<"Yes", "No">>,
              outcomePrices |-> <<Dec(30, 100), Dec(70, 100)>>],
             [bestBid |-> Null, bestAsk |-> Null], Dec(2, 1000), 99999,
             volume24hr, [oneHour |-> change, oneDay |-> change], TRUE, FALSE)

Candidate(market) ==
  [market |-> market, orderbook |-> NullOrderbook, relatedMarkets |-> <<>>]

\* Two markets that tie on score and edge, a third that ties with them and
\* shares a slug, one with a smaller edge and the same score, one with low
\* volume and no slug, one with a wide quote, no spread field, no edge and a
\* volume of exactly 1000.
RankPool ==
  { Candidate(LiquidMarket(<<1>>, <<2>>, 999999, 0 - Dec(40, 100))),
    Candidate(LiquidMarket(<<2>>, <<1>>, 999999, 0 - Dec(40, 100))),
    Candidate(LiquidMarket(<<3>>, <<1>>, 999999, 0 - Dec(40, 100))),
    Candidate(LiquidMarket(<<4>>, <<1, 1>>, 999999, 0 - Dec(20, 100))),
    Candidate(LiquidMarket(<<5>>, NullStr, 500, 0 - Dec(40, 100))),
    Candidate(MakeMarket(<<6>>, <<3>>,
                         [outcomes |-> <<>>, outcomePrices |-> <<>>],
                         [bestBid |-> Dec(42, 100), bestAsk |-> Dec(46, 100)],
                         Null, 99999, 1000,
                         [oneHour |-> Null, oneDay |-> Null], TRUE, FALSE)) }

\* the sequences of at most n elements of S
RECURSIVE SeqsUpTo(_, _)
SeqsUpTo(S, n) ==
  IF n = 0 THEN {<<>>}
  ELSE LET shorter == SeqsUpTo(S, n - 1)
       IN  shorter \cup
           { Append(l, x) : l \in {y \in shorter : Len(y) = n - 1}, x \in S }

\* every combination of the three filters with the default limit and a limit
\* of 2, and the limits -1, 0 and 2 with traces and the minVolume filter
RankInputs ==
  [candidates : SeqsUpTo(RankPool, MaxCandidates),
   nowIso : {Timestamp(NowMs)},
   timeHorizonHours : {Undefined},
   minVolume : {Undefined, 1000},
   maxSpreadBps : {Undefined, 80000},
   minEdgePct : {Undefined, Micro},
   limit : {Undefined, 2},
   includeTrace : {FALSE}]
  \cup
  [candidates : SeqsUpTo(RankPool, MaxCandidates),
   nowIso : {Timestamp(NowMs)},
   timeHorizonHours : {Undefined},
   minVolume : {Undefined, 1000},
   maxSpreadBps : {Undefined},
   minEdgePct : {Undefined},
   limit : {0 - 1, 0, 2},
   includeTrace : {TRUE}]

RankOrderInputs ==
  [candidates : SeqsUpTo(RankPool, MaxCandidates),
   nowIso : {Timestamp(NowMs)},
   timeHorizonHours : {Undefined},
   minVolume : {Undefined, 1000},
   maxSpreadBps : {Undefined},
   minEdgePct : {Undefined},
   limit : {Undefined, 1, 2},
   includeTrace : {FALSE}]

InitRank ==
  /\ rankInput \in RankInputs
  /\ rankScored = Pending
  /\ rankResult = Pending
  /\ rankSwap = 0
  /\ rankAgain = Pending
  /\ ScoreIdle
  /\ ScanIdle
  /\ ExtraIdle

InitRankOrder ==
  /\ rankInput \in RankOrderInputs
  /\ rankScored = Pending
  /\ rankResult = Pending
  /\ rankSwap = 0
  /\ rankAgain = Pending
  /\ ScoreIdle
  /\ ScanIdle
  /\ ExtraIdle

Rank ==
  /\ rankResult = Pending
  /\ rankScored' = ScoredCandidates(rankInput)
  /\ rankResult' = rankMispricingSignals(rankInput)
  /\ UNCHANGED <<rankInput, rankSwap, rankAgain, scoreVars, scanVars, extraVars>>

\* list with the elements at k and k + 1 exchanged (k = 0: list itself)
SwapAt(list, k) ==
  [i \in 1..Len(list) |->
     IF k >= 1 /\ i = k THEN list[k + 1]
     ELSE IF k >= 1 /\ i = k + 1 THEN list[k]
     ELSE list[i]]

\* the caller ranks the same candidates again, supplied in another order
RankAgain(k) ==
  /\ rankResult # Pending
  /\ rankAgain = Pending
  /\ rankSwap' = k
  /\ rankAgain' =
       rankMispricingSignals(
         [rankInput EXCEPT !.candidates = SwapAt(rankInput.candidates, k)])
  /\ UNCHANGED <<rankInput, rankScored, rankResult, scoreVars, scanVars, extraVars>>

NextRank == Rank

NextRankOrder ==
  \/ Rank
  \/ \E k \in 0..MaxCandidates :
       k < Len(rankInput.candidates) /\ RankAgain(k)

SpecRank == InitRank /\ [][NextRank]_vars

SpecRankOrder == InitRankOrder /\ [][NextRankOrder]_vars

(***************************************************************************)
(* SpecScan: scanPolymarketMispricing, one step per stretch of code that   *)
(* runs between two awaits.  The promise of a mapper call that sent no     *)
(* request is settled when the call returns, so its worker resumes from    *)
(* the microtask queue, before any response of the network is handled.     *)
(***************************************************************************)
MaxMarkets == 3

ScanMarket(id, slug, shape, acceptingOrders, clobTokenIds, eventId, question) ==
  MakeMarket(id, slug, shape, [bestBid |-> Null, bestAsk |-> Null],
             Dec(2, 1000), 99999, 999999,
             [oneHour |-> 0 - Dec(40, 100), oneDay |-> 0 - Dec(40, 100)],
             TRUE, FALSE)
    @@ [acceptingOrders |-> acceptingOrders, clobTokenIds |-> clobTokenIds,
        eventId |-> eventId, question |-> question]

\* Two markets with a token id (the second finds it by falling back to the
\* first id), one whose token id is empty, one whose token id is blank and
\* whose 24h volume is unknown, one that accepts no orders.
ListedMarkets ==
  { ScanMarket(<<1>>, <<9, 2>>,
               [outcomes |-> <<"Yes", "No">>,
                outcomePrices |-> <<Dec(30, 100), Dec(70, 100)>>],
               TRUE, <<"tok-1-yes", "tok-1-no">>, "e1", "Will the Fed cut?"),
    ScanMarket(<<2>>, NullStr,
               [outcomes |-> <<"Down", " yes ">>,
                outcomePrices |-> <<Dec(60, 100), Dec(40, 100)>>],
               TRUE, <<"tok-2">>, " e1 ", "Rain tomorrow?"),
    ScanMarket(<<3>>, <<9, 1>>,
               [outcomes |-> <<"Yes", "No">>,
                outcomePrices |-> <<Dec(30, 100), Dec(70, 100)>>],
               TRUE, <<"">>, "e1", NullText),
    [ScanMarket(<<4>>, <<9, 3>>,
                [outcomes |-> <<>>, outcomePrices |-> <<>>],
                TRUE, <<" ">>, NullText, "Will the Fed cut?")
       EXCEPT !.volume24hr = Null],
    ScanMarket(<<5>>, <<9, 4>>,
               [outcomes |-> <<"Yes", "No">>,
                outcomePrices |-> <<Dec(30, 100), Dec(70, 100)>>],
               FALSE, <<"tok-5">>, "e1", "Will the Fed cut?") }

\* the markets of list, as a set
Range(list) == {list[i] : i \in 1..Len(list)}

\* the listings of at most n markets, no market twice
RECURSIVE Listings(_)
Listings(n) ==
  IF n = 0 THEN {<<>>}
  ELSE LET shorter == Listings(n - 1)
       IN  shorter \cup
           UNION { { Append(l, m) : m \in ListedMarkets \ Range(l) } :
                     l \in {y \in shorter : Len(y) = n - 1} }

\* the order books the network may answer with: a two-sided book stamped in
\* milliseconds a minute ago, a book without bids with an unreadable stamp,
\* and a book stamped with a number of milliseconds no Date can hold
Summaries(tokenId) ==
  { [assetId |-> tokenId,
     bids |-> <<[price |-> Dec(40, 100), size |-> 10],
                [price |-> Dec(42, 100), size |-> 5]>>,
     asks |-> <<[price |-> Dec(50, 100), size |-> 10],
                [price |-> Dec(46, 100), size |-> 5]>>,
     timestamp |-> [number |-> NowMs - 60000, date |-> NaN]],
    [assetId |-> tokenId,
     bids |-> <<>>,
     asks |-> <<[price |-> Dec(46, 100), size |-> 5]>>,
     timestamp |-> BadTimestamp],
    [assetId |-> tokenId,
     bids |-> <<[price |-> Dec(42, 100), size |-> 5]>>,
     asks |-> <<[price |-> Dec(46, 100), size |-> 5]>>,
     timestamp |-> [number |-> MaxTimeValue + 1, date |-> NaN]] }

\* an input that leaves everything to the defaults
DefaultScanInput ==
  [query |-> UndefinedText, limit |-> Undefined, minVolume |-> Undefined,
   maxSpreadBps |-> Undefined, timeHorizonHours |-> Undefined,
   concurrency |-> Undefined, includeTrace |-> FALSE]

\* inputs normalizeInput accepts: concurrency 1, 2, the default and 13 (above
\* the ceiling), and one with every option given
ValidScanInputs ==
  { [DefaultScanInput EXCEPT !.concurrency = c] :
      c \in {Undefined, Tenths(1), Tenths(2)} }
  \cup
  { [query |-> " Fed ", limit |-> Tenths(51), minVolume |-> 1000,
     maxSpreadBps |-> 500 * 100, timeHorizonHours |-> 200,
     concurrency |-> Tenths(13), includeTrace |-> TRUE] }

\* inputs with one option normalizeInput rejects
InvalidScanInputs ==
  { [DefaultScanInput EXCEPT !.limit = v] :
      v \in {0, 0 - Tenths(1), 15, NaN} }
  \cup { [DefaultScanInput EXCEPT !.concurrency = v] :
           v \in {0, 0 - Tenths(2), 25, NaN} }
  \cup { [DefaultScanInput EXCEPT !.minVolume = v] : v \in {0 - 1, NaN} }
  \cup { [DefaultScanInput EXCEPT !.maxSpreadBps = v] : v \in {0, 0 - 100} }
  \cup { [DefaultScanInput EXCEPT !.timeHorizonHours = v] : v \in {0, 0 - 24} }
  \cup { [query |-> "Fed", limit |-> Tenths(5), minVolume |-> 1000,
          maxSpreadBps |-> 500 * 100, timeHorizonHours |-> 24,
          concurrency |-> 0, includeTrace |-> TRUE] }

InitScan ==
  /\ scanPc = "start"
  /\ scanInput \in ValidScanInputs \cup InvalidScanInputs
  /\ normalized = Pending
  /\ listRequest = Pending
  /\ nowIso = Pending
  /\ scanCandidates = <<>>
  /\ index = 0
  /\ workers = <<>>
  /\ results = <<>>
  /\ warnings = <<>>
  /\ microtasks = <<>>
  /\ fetchLog = <<>>
  /\ handed = Pending
  /\ scanResult = Pending
  /\ ScoreIdle
  /\ RankIdle
  /\ ExtraIdle

\* the catch of scanPolymarketMispricing
ScanError(message) == [ok |-> FALSE, error |-> message]

\* Math.min(MAX_FETCH_LIMIT, Math.max(limit * DEFAULT_FETCH_MULTIPLIER, 25))
FetchLimit(limit) ==
  Min(MAX_FETCH_LIMIT, Max(limit * DEFAULT_FETCH_MULTIPLIER, 25))

\* From the call to the first await: normalizeInput throws and the catch
\* returns, or the listMarkets request is sent.
ScanStart ==
  /\ scanPc = "start"
  /\ IF normalizeInput(scanInput).threw
       THEN /\ scanResult' = ScanError(normalizeInput(scanInput).error)
            /\ scanPc' = "done"
            /\ UNCHANGED <<normalized, listRequest, nowIso>>
       ELSE /\ normalized' = normalizeInput(scanInput)
            /\ nowIso' = Timestamp(NowMs)
            /\ listRequest' =
                 [limit |-> FetchLimit(normalizeInput(scanInput).limit),
                  closed |-> FALSE,
                  minVolume |-> normalizeInput(scanInput).minVolume]
            /\ scanPc' = "listing"
            /\ UNCHANGED scanResult
  /\ UNCHANGED <<scanInput, scanCandidates, poolVars, handed, scoreVars,
                 rankVars, extraVars>>

\* listMarkets rejects: the catch returns
ListReject ==
  /\ scanPc = "listing"
  /\ scanResult' = ScanError("listMarkets failed")
  /\ scanPc' = "done"
  /\ UNCHANGED <<scanInput, normalized, listRequest, nowIso, scanCandidates,
                 poolVars, handed, scoreVars, rankVars, extraVars>>

\* The body of a worker's loop from the `while` test to `await mapper(...)`,
\* on the record pool of the pool's variables: the worker is done, or takes
\* the next item and runs the mapper to its first await.
\* a worker that takes one item and leaves its loop
RunWorkerOnce(items, pool, w) ==
  IF ~(pool.index < Len(items)) \/ pool.workers[w].awaits # "start"
    THEN [pool EXCEPT !.workers[w] = [awaits |-> "nothing", currentIndex |-> 0]]
  ELSE IF Falsy(resolveReferenceTokenId(items[pool.index + 1]))
    THEN [pool EXCEPT
            !.index = @ + 1,
            !.warnings = Append(@, SkippedWarning(items[pool.index + 1])),
            !.workers[w] = [awaits |-> "skipped", currentIndex |-> pool.index],
            !.microtasks = Append(@, w),
            !.fetchLog[pool.index + 1].calls = @ + 1]
  ELSE IF Trim(resolveReferenceTokenId(items[pool.index + 1])) = ""
    THEN [pool EXCEPT
            !.index = @ + 1,
            !.workers[w] = [awaits |-> "refused", currentIndex |-> pool.index],
            !.microtasks = Append(@, w),
            !.fetchLog[pool.index + 1].calls = @ + 1]
  ELSE [pool EXCEPT
          !.index = @ + 1,
          !.workers[w] = [awaits |-> "fetch", currentIndex |-> pool.index],
          !.fetchLog[pool.index + 1] =
            [calls |-> @.calls + 1, requests |-> @.requests + 1,
             ended |-> "pending"]]

RunWorker(items, pool, w) ==
  IF ~(pool.index < Len(items))
    THEN [pool EXCEPT !.workers[w] = [awaits |-> "nothing", currentIndex |-> 0]]
  ELSE IF Falsy(resolveReferenceTokenId(items[pool.index + 1]))
    THEN [pool EXCEPT
            !.index = @ + 1,
            !.warnings = Append(@, SkippedWarning(items[pool.index + 1])),
            !.workers[w] = [awaits |-> "skipped", currentIndex |-> pool.index],
            !.microtasks = Append(@, w),
            !.fetchLog[pool.index + 1].calls = @ + 1]
  ELSE IF Trim(resolveReferenceTokenId(items[pool.index + 1])) = ""
    THEN [pool EXCEPT
            !.index = @ + 1,
            !.workers[w] = [awaits |-> "refused", currentIndex |-> pool.index],
            !.microtasks = Append(@, w),
            !.fetchLog[pool.index + 1].calls = @ + 1]
  ELSE [pool EXCEPT
          !.index = @ + 1,
          !.workers[w] = [awaits |-> "fetch", currentIndex |-> pool.index],
          !.fetchLog[pool.index + 1] =
            [calls |-> @.calls + 1, requests |-> @.requests + 1,
             ended |-> "pending"]]

\* Array.from({length: workers}, async () => ...): the workers w..last start
\* one after the other
RECURSIVE StartWorkers(_, _, _, _)
StartWorkers(items, pool, w, last) ==
  IF w > last THEN pool
  ELSE StartWorkers(items, RunWorker(items, pool, w), w + 1, last)

\* mapWithConcurrency up to its await, for a non-empty items
StartPool(items, concurrency) ==
  StartWorkers(
    items,
    [index |-> 0,
     workers |-> [w \in 1..PoolWorkers(concurrency, Len(items)) |->
                    [awaits |-> "start", currentIndex |-> 0]],
     results |-> [i \in 1..Len(items) |-> Pending],
     warnings |-> <<>>,
     microtasks |-> <<>>,
     fetchLog |-> [i \in 1..Len(items) |->
                     [calls |-> 0, requests |-> 0, ended |-> "never sent"]]],
    1, PoolWorkers(concurrency, Len(items)))

\* the variables of the pool take the values of the record pool
SetPool(pool) ==
  /\ index' = pool.index
  /\ workers' = pool.workers
  /\ results' = pool.results
  /\ warnings' = pool.warnings
  /\ microtasks' = pool.microtasks
  /\ fetchLog' = pool.fetchLog

\* the variables of the pool, as a record
ThePool ==
  [index |-> index, workers |-> workers, results |-> results,
   warnings |-> warnings, microtasks |-> microtasks, fetchLog |-> fetchLog]

\* listMarkets resolves: the candidates are filtered and mapWithConcurrency
\* runs up to its await (for no candidates it returns [] at once)
ListResolve(markets) ==
  /\ scanPc = "listing"
  /\ LET IsCandidate(market) ==
           IsScanCandidate(market, normalizeQuery(normalized.query))
     IN  /\ scanCandidates' = SelectSeq(markets, IsCandidate)
         /\ IF Len(SelectSeq(markets, IsCandidate)) = 0
              THEN UNCHANGED poolVars
              ELSE SetPool(StartPool(SelectSeq(markets, IsCandidate),
                                     normalized.concurrency))
  /\ scanPc' = "pool"
  /\ UNCHANGED <<scanInput, normalized, listRequest, nowIso, handed,
                 scanResult, scoreVars, rankVars, extraVars>>

\* the slot read from the shared cursor when the result arrives
SlotOfCursor(w) == index

\* the worker's currentIndex, counted from 1
Slot(w) == workers[w].currentIndex + 1

\* A worker whose mapper returned null for want of a token id resumes: it
\* stores the null and goes round its loop.
SkipResume ==
  /\ scanPc = "pool"
  /\ microtasks # <<>>
  /\ workers[Head(microtasks)].awaits = "skipped"
  /\ SetPool(RunWorker(scanCandidates,
                       [ThePool EXCEPT
                          !.microtasks = Tail(@),
                          !.results[Slot(Head(microtasks))] = NullOrderbook],
                       Head(microtasks)))
  /\ UNCHANGED <<scanPc, scanInput, normalized, listRequest, nowIso,
                 scanCandidates, handed, scanResult, scoreVars, rankVars, extraVars>>

\* A worker whose getOrderbookSummary threw on a blank token id resumes in the
\* mapper's catch.
RefusedResume ==
  /\ scanPc = "pool"
  /\ microtasks # <<>>
  /\ workers[Head(microtasks)].awaits = "refused"
  /\ SetPool(RunWorker(scanCandidates,
                       [ThePool EXCEPT
                          !.microtasks = Tail(@),
                          !.warnings =
                            CatchFetchError(
                              @, scanCandidates[Slot(Head(microtasks))]),
                          !.results[Slot(Head(microtasks))] = NullOrderbook],
                       Head(microtasks)))
  /\ UNCHANGED <<scanPc, scanInput, normalized, listRequest, nowIso,
                 scanCandidates, handed, scanResult, scoreVars, rankVars, extraVars>>

\* The order book of worker w's item arrives: the snapshot is stored, or, when
\* toOrderbookSnapshot throws, the mapper's catch records a warning and returns
\* null; the worker goes round its loop.
FetchResolve(w, summary) ==
  /\ scanPc = "pool"
  /\ microtasks = <<>>
  /\ workers[w].awaits = "fetch"
  /\ IF toOrderbookSnapshot(summary) = InvalidTime
       THEN SetPool(RunWorker(scanCandidates,
                              [ThePool EXCEPT
                                 !.fetchLog[Slot(w)].ended = "unusable",
                                 !.warnings =
                                   CatchFetchError(@, scanCandidates[Slot(w)]),
                                 !.results[Slot(w)] = NullOrderbook],
                              w))
       ELSE SetPool(RunWorker(scanCandidates,
                              [ThePool EXCEPT
                                 !.fetchLog[Slot(w)].ended = "resolved",
                                 !.results[Slot(w)] =
                                   toOrderbookSnapshot(summary)],
                              w))
  /\ UNCHANGED <<scanPc, scanInput, normalized, listRequest, nowIso,
                 scanCandidates, handed, scanResult, scoreVars, rankVars, extraVars>>

\* The request of worker w's item fails: the mapper's catch records a warning
\* and returns null, and the worker goes round its loop.
FetchReject(w) ==
  /\ scanPc = "pool"
  /\ microtasks = <<>>
  /\ workers[w].awaits = "fetch"
  /\ SetPool(RunWorker(scanCandidates,
                       [ThePool EXCEPT
                          !.fetchLog[Slot(w)].ended = "rejected",
                          !.warnings =
                            CatchFetchError(@, scanCandidates[Slot(w)]),
                          !.results[Slot(w)] = NullOrderbook],
                       w))
  /\ UNCHANGED <<scanPc, scanInput, normalized, listRequest, nowIso,
                 scanCandidates, handed, scanResult, scoreVars, rankVars, extraVars>>

\* snapshots[index] ?? null
SnapshotOrNull(snapshots, i) ==
  IF i > Len(snapshots) THEN NullOrderbook
  ELSE IF snapshots[i] = Pending THEN NullOrderbook
  ELSE snapshots[i]

\* the scoredCandidates of the scan
ScoredCandidatesOf(candidates, snapshots) ==
  [i \in 1..Len(candidates) |->
     [market |-> candidates[i],
      orderbook |-> SnapshotOrNull(snapshots, i),
      relatedMarkets |-> getRelatedMarkets(candidates, candidates[i])]]

\* the input of the scan's call of rankMispricingSignals
RankingInput(scoredCandidates) ==
  [candidates |-> scoredCandidates,
   nowIso |-> nowIso,
   timeHorizonHours |-> normalized.timeHorizonHours,
   minVolume |-> normalized.minVolume,
   maxSpreadBps |-> normalized.maxSpreadBps,
   minEdgePct |-> Undefined,
   limit |-> normalized.limit,
   includeTrace |-> normalized.includeTrace]

\* the PolymarketScanSuccess built from the ranking
ScanSuccess(scoredCandidates, ranking) ==
  [ok |-> TRUE,
   query |-> normalizeQuery(normalized.query),
   generatedAt |-> nowIso,
   parameters |->
     [limit |-> normalized.limit, minVolume |-> normalized.minVolume,
      maxSpreadBps |-> normalized.maxSpreadBps,
      timeHorizonHours |-> normalized.timeHorizonHours,
      concurrency |-> normalized.concurrency],
   scannedMarkets |-> Len(scoredCandidates),
   returnedSignals |-> Len(ranking.signals),
   opportunities |-> ranking.signals,
   warnings |-> warnings,
   trace |-> ranking.traces]

\* the scan from the ranking on, scoredCandidates being built
FinishWith(scoredCandidates) ==
  /\ handed' = scoredCandidates
  /\ scanResult' =
       ScanSuccess(scoredCandidates,
                   rankMispricingSignals(RankingInput(scoredCandidates)))

\* Every worker has left its loop, so mapWithConcurrency resolves: the
\* candidates are ranked and the scan returns.
ScanFinish ==
  /\ scanPc = "pool"
  /\ \A w \in 1..Len(workers) : workers[w].awaits = "nothing"
  /\ FinishWith(ScoredCandidatesOf(scanCandidates, results))
  /\ scanPc' = "done"
  /\ UNCHANGED <<scanInput, normalized, listRequest, nowIso, scanCandidates,
                 poolVars, scoreVars, rankVars, extraVars>>

NextScan ==
  \/ ScanStart
  \/ ListReject
  \/ \E markets \in Listings(MaxMarkets) : ListResolve(markets)
  \/ SkipResume
  \/ RefusedResume
  \/ \E w \in 1..MAX_CONCURRENCY :
       /\ w <= Len(workers)
       /\ \/ FetchReject(w)
          \/ \E summary \in Summaries(resolveReferenceTokenId(
                                        scanCandidates[Slot(w)])) :
               FetchResolve(w, summary)
  \/ ScanFinish

SpecScan == InitScan /\ [][NextScan]_vars

(***************************************************************************)
(* Properties of scoreMispricingCandidate (SpecScore)                      *)
(***************************************************************************)
ScoreDone == scoreResult # Pending

\* the total of the two penalties reported on the trace
TracePenaltyTotal ==
  scoreResult.trace.penalties.stalePenalty
    + scoreResult.trace.penalties.lowActivityPenalty

C3_ConfidenceFromReported ==
  ScoreDone =>
    LET s == scoreResult.signal.mispricingScore
        e == scoreResult.signal.edgePct
        isHigh == s >= 70 * Micro /\ e >= Dec(15, 10)
                    /\ TracePenaltyTotal < Dec(9, 100)
        isMedium == ~isHigh /\ s >= 45 * Micro /\ e >= Dec(75, 100)
    IN  /\ (scoreResult.signal.confidence = "high") <=> isHigh
        /\ (scoreResult.signal.confidence = "medium") <=> isMedium
        /\ (scoreResult.signal.confidence = "low") <=> (~isHigh /\ ~isMedium)

\* C3 amended: the tiers are decided on the unrounded score and edge, so on the
\* reported values they hold up to rounding: a tier implies its thresholds on
\* the reported values, and reported values strictly above the thresholds
\* imply the tier.
C3_ConfidenceUpToRounding ==
  ScoreDone =>
    LET s == scoreResult.signal.mispricingScore
        e == scoreResult.signal.edgePct
        c == scoreResult.signal.confidence
        lowPenalty == TracePenaltyTotal < Dec(9, 100)
    IN  /\ c \in {"low", "medium", "high"}
        /\ c = "high" => (s >= 70 * Micro /\ e >= Dec(15, 10) /\ lowPenalty)
        /\ (s > 70 * Micro /\ e > Dec(15, 10) /\ lowPenalty) => c = "high"
        /\ c = "medium" => (s >= 45 * Micro /\ e >= Dec(75, 100))
        /\ c = "medium" =>
             ~(s > 70 * Micro /\ e > Dec(15, 10) /\ lowPenalty)
        /\ (s > 45 * Micro /\ e > Dec(75, 100)) => c # "low"

\* C3 witness: a signal reports edgePct 0.75 and a score of at least 45 and
\* is still 'low' (its unrounded edge is below 0.75).
C3_Witness ==
  /\ ScoreDone
  /\ scoreResult.signal.confidence = "low"
  /\ scoreResult.signal.edgePct = Dec(75, 100)
  /\ scoreResult.signal.mispricingScore >= 45 * Micro

\* C5: the two-sided-quote term is 0.15 exactly when the snapshot has both
\* bestBid and bestAsk or the market has both, and 0 otherwise; so with no
\* snapshot, no market quote, no liquidity and no volume the component is 0.
C5_TwoSidedTerm ==
  ScoreDone =>
    LET m == scoreInput.market
        ob == scoreInput.orderbook
        available ==
          \/ (ob # NullOrderbook /\ ob.bestBid # Null /\ ob.bestAsk # Null)
          \/ (m.bestBid # Null /\ m.bestAsk # Null)
        liquidityTerm ==
          IF m.liquidity = Null THEN 0
          ELSE FMul(clamp(Log10(m.liquidity + 1) \div 5, 0, Micro), Dec(55, 100))
        volumeTerm ==
          IF m.volume24hr = Null THEN 0
          ELSE FMul(clamp(Log10(m.volume24hr + 1) \div 6, 0, Micro), Dec(3, 10))
    IN  scoreResult.trace.componentScores.liquidityDepthQuality
          = round4(clamp(liquidityTerm + volumeTerm
                           + (IF available THEN Dec(15, 100) ELSE 0),
                         0, Micro))

\* C6: with no order book, or a timestamp or nowIso that does not parse, the
\* signal is still returned, with the age unknown, and carries a risk flag
\* other than the fallback 'educational signal only'.
C6_DegradedSignalFlagged ==
  (ScoreDone
     /\ (\/ scoreInput.orderbook = NullOrderbook
         \/ ~IsFinite(DateParse(scoreInput.orderbook.timestamp))
         \/ ~IsFinite(DateParse(scoreInput.nowIso)))) =>
    /\ scoreResult.trace.orderbookAgeMinutes = Null
    /\ \E i \in 1..Len(scoreResult.signal.riskFlags) :
         scoreResult.signal.riskFlags[i] # "educational signal only"

(***************************************************************************)
(* Properties of rankMispricingSignals (SpecRank, SpecRankOrder)           *)
(***************************************************************************)
RankDone == rankResult # Pending

\* signal a may stand before signal b in a ranked list
InRankOrder(a, b) ==
  \/ a.mispricingScore > b.mispricingScore
  \/ /\ a.mispricingScore = b.mispricingScore
     /\ a.edgePct > b.edgePct
  \/ /\ a.mispricingScore = b.mispricingScore
     /\ a.edgePct = b.edgePct
     /\ localeCompare(a.marketSlug, b.marketSlug) <= 0

\* the number of positions of list that hold signal
Occurrences(list, signal) == Cardinality({i \in 1..Len(list) : list[i] = signal})

\* the signals of the candidates that survived the filters, in input order
SurvivorSignals == [i \in 1..Len(rankScored) |-> rankScored[i].signal]

\* C2: the result holds min(#survivors, max(0, limit)) signals, all of them
\* survivors, adjacent ones in rank order (score descending, then edgePct
\* descending, then marketSlug ascending); no survivor that was left out may
\* stand strictly before a returned one; a limit of 0 or less gives the empty
\* list.
C2_TopOfSortedSurvivors ==
  RankDone =>
    LET result == rankResult.signals
        limit == Default(rankInput.limit, 20)
    IN  /\ Len(result) = Min(Len(rankScored), Max(0, limit))
        /\ limit <= 0 => result = <<>>
        /\ \A i \in 1..Len(result) :
             Occurrences(result, result[i])
               <= Occurrences(SurvivorSignals, result[i])
        /\ \A i \in 1..(Len(result) - 1) : InRankOrder(result[i], result[i + 1])
        /\ \A j \in 1..Len(SurvivorSignals) :
             Occurrences(result, SurvivorSignals[j])
               < Occurrences(SurvivorSignals, SurvivorSignals[j])
             => \A i \in 1..Len(result) :
                  InRankOrder(result[i], SurvivorSignals[j])

\* C2 witness: three candidates survive and two are returned; the two tie on
\* score and the edge decides between them, and the input had them the other
\* way round.
C2_Witness ==
  /\ RankDone
  /\ Len(rankScored) = 3
  /\ Len(rankResult.signals) = 2
  /\ rankResult.signals[1].mispricingScore
       = rankResult.signals[2].mispricingScore
  /\ rankResult.signals[1].edgePct > rankResult.signals[2].edgePct
  /\ \E i, j \in 1..3 :
       /\ i < j
       /\ rankScored[i].signal = rankResult.signals[2]
       /\ rankScored[j].signal = rankResult.signals[1]

\* the candidates of the call whose volume24hr is known and at least v
AtLeastVolume(candidate, v) ==
  candidate.market.volume24hr # Null /\ candidate.market.volume24hr >= v

\* the market ids of the signals of list
SignalIds(list) == {list[i].marketId : i \in 1..Len(list)}

\* C10: with minVolume given, no candidate with volume24hr below it is among
\* the signals, and every candidate with volume24hr at or above it survives the
\* filters whenever it survives them with minVolume left out.
C10_MinVolumeFilter ==
  (RankDone /\ rankInput.minVolume # Undefined) =>
    LET without ==
          ScoredCandidates([rankInput EXCEPT !.minVolume = Undefined])
    IN  \A i \in 1..Len(rankInput.candidates) :
          LET c == rankInput.candidates[i]
          IN  IF AtLeastVolume(c, rankInput.minVolume)
                THEN Occurrences([k \in 1..Len(without) |-> without[k].signal.marketId],
                                 c.market.id)
                       = Occurrences([k \in 1..Len(rankScored) |->
                                        rankScored[k].signal.marketId],
                                     c.market.id)
                ELSE c.market.id \notin SignalIds(rankResult.signals)

\* C10 witness: minVolume is 1000; the first candidate has volume 500 and would
\* have scored above 70, the result leaves it out and holds a candidate whose
\* volume is exactly 1000.
C10_Witness ==
  /\ RankDone
  /\ rankInput.minVolume = 1000
  /\ Len(rankInput.candidates) >= 2
  /\ rankInput.candidates[1].market.volume24hr = 500
  /\ rankInput.candidates[1].market.id \notin SignalIds(rankResult.signals)
  /\ \E i \in 1..Len(rankInput.candidates) :
       /\ rankInput.candidates[i].market.volume24hr = 1000
       /\ rankInput.candidates[i].market.id \in SignalIds(rankResult.signals)

\* the marketSlug a candidate's signal will carry
SignalSlug(candidate) ==
  IF candidate.market.slug = NullStr THEN candidate.market.id
  ELSE candidate.market.slug

DistinctSlugs(candidates) ==
  \A i, j \in 1..Len(candidates) :
    i # j => SignalSlug(candidates[i]) # SignalSlug(candidates[j])

ScanDone == scanPc = "done"

\* the candidates (by position) for which no order book was had
Failing(i) == fetchLog[i].ended # "resolved"

\* the positions of the warnings that name candidate i
WarningsAbout(i) ==
  {k \in 1..Len(warnings) :
     warnings[k].of \in {scanCandidates[i].id, scanCandidates[i].slug}}

\* C7: a failed fetch or a missing token id does not abort the scan: once an
\* order book was requested or a warning recorded the scan ends with ok: true;
\* it hands every candidate to the ranker, in order, the failing ones with a
\* null order book and the others with the snapshot of their own token; it
\* records exactly one warning per failing candidate and none for the others;
\* and no candidate's order book is requested twice.
C7_FailuresAbsorbed ==
  /\ \A i \in 1..Len(fetchLog) : fetchLog[i].requests <= 1
  /\ (ScanDone /\ (Len(fetchLog) > 0 \/ Len(warnings) > 0)) => scanResult.ok
  /\ (ScanDone /\ scanResult.ok) =>
       /\ Len(handed) = Len(scanCandidates)
       /\ scanResult.scannedMarkets = Len(scanCandidates)
       /\ scanResult.warnings = warnings
       /\ Len(warnings) = Cardinality({i \in 1..Len(scanCandidates) : Failing(i)})
       /\ \A i \in 1..Len(scanCandidates) :
            /\ handed[i].market = scanCandidates[i]
            /\ Cardinality(WarningsAbout(i)) = (IF Failing(i) THEN 1 ELSE 0)
            /\ IF Failing(i)
                 THEN handed[i].orderbook = NullOrderbook
                 ELSE /\ handed[i].orderbook # NullOrderbook
                      /\ handed[i].orderbook.tokenId
                           = resolveReferenceTokenId(scanCandidates[i])

\* C7 witness: a scan of three candidates has ended with ok: true; the first
\* candidate's fetch failed, the second's succeeded, the third has no token
\* id; there are two warnings and the second candidate kept its order book.
C7_Witness ==
  /\ ScanDone
  /\ scanResult.ok
  /\ Len(scanCandidates) = 3
  /\ fetchLog[1].ended = "rejected"
  /\ fetchLog[2].ended = "resolved"
  /\ Falsy(resolveReferenceTokenId(scanCandidates[3]))
  /\ Len(scanResult.warnings) = 2
  /\ handed[1].orderbook = NullOrderbook
  /\ handed[2].orderbook # NullOrderbook
  /\ handed[3].orderbook = NullOrderbook

\* the order-book requests sent and not yet answered
InFlight ==
  Cardinality({i \in 1..Len(fetchLog) : fetchLog[i].ended = "pending"})

\* the requested concurrency (6 when none is given), capped at 12
EffectiveConcurrency ==
  Min(IF scanInput.concurrency = Undefined THEN 6
      ELSE Whole(scanInput.concurrency),
      12)

\* C8: at every moment of a scan the number of order-book requests in flight,
\* and the number of workers, is at most min(concurrency, number of
\* candidates), the concurrency being the requested one capped at 12 (6 by
\* default).
C8_BoundedInFlight ==
  (scanPc \in {"listing", "pool", "done"} /\ normalized # Pending) =>
    /\ normalized.concurrency = EffectiveConcurrency
    /\ InFlight <= Min(EffectiveConcurrency, Len(scanCandidates))
    /\ Len(workers) <= Min(EffectiveConcurrency, Len(scanCandidates))

\* C8 witness: with a concurrency of 2 and three candidates, two requests are
\* in flight and the third candidate has not been taken yet.
C8_Witness ==
  /\ scanPc = "pool"
  /\ scanInput.concurrency = Tenths(2)
  /\ Len(scanCandidates) = 3
  /\ InFlight = 2
  /\ index = 2
  /\ fetchLog[3].requests = 0

\* limit or concurrency v (in tenths) is given and is not a positive integer
BadCount(v) == v # Undefined /\ v # NaN /\ (v <= 0 \/ v % 10 # 0)

\* the input has a parameter the scan is to reject
InvalidParameters(input) ==
  \/ BadCount(input.limit)
  \/ BadCount(input.concurrency)
  \/ (input.minVolume # Undefined /\ input.minVolume # NaN
        /\ input.minVolume < 0)
  \/ (input.maxSpreadBps # Undefined /\ input.maxSpreadBps # NaN
        /\ input.maxSpreadBps <= 0)
  \/ (input.timeHorizonHours # Undefined /\ input.timeHorizonHours # NaN
        /\ input.timeHorizonHours <= 0)

\* C9: for an input with a non-positive or non-integer limit or concurrency, a
\* negative minVolume, a non-positive maxSpreadBps or a non-positive
\* timeHorizonHours, the scan never sends the listing request, never requests
\* an order book and never starts ranking, and it ends with ok: false and an
\* error message.
C9_InvalidInputRejected ==
  (scanPc # "idle" /\ InvalidParameters(scanInput)) =>
    /\ scanPc \in {"start", "done"}
    /\ listRequest = Pending
    /\ fetchLog = <<>>
    /\ handed = Pending
    /\ ScanDone => (~scanResult.ok /\ scanResult.error # "")

\* C9 witness: an input whose only fault is a concurrency of 0, checked last,
\* was rejected with no request sent.
C9_Witness ==
  /\ ScanDone
  /\ scanInput.concurrency = 0
  /\ scanInput.limit = Tenths(5)
  /\ scanInput.minVolume = 1000
  /\ ~scanResult.ok
  /\ listRequest = Pending

(***************************************************************************)
(* Properties of the scorer's parts (SpecScore)                            *)
(***************************************************************************)
\* the elements of a list
Elements(list) == {list[i] : i \in 1..Len(list)}

\* the risk flags with a condition of their own that holds for the signal
RiskFlagsThatApply ==
  LET t == scoreResult.trace
      m == scoreInput.market
  IN  (IF t.spreadBps = Null THEN {"missing spread data"} ELSE {})
        \cup (IF t.spreadBps # Null /\ t.spreadBps > 400 * 100
                THEN {"wide spread execution risk"} ELSE {})
        \cup (IF t.liquidity = Null \/ t.liquidity < 1000
                THEN {"thin liquidity"} ELSE {})
        \cup (IF t.volume24h = Null \/ t.volume24h < 250
                THEN {"low 24h activity"} ELSE {})
        \cup (IF t.orderbookAgeMinutes # Null
                   /\ t.orderbookAgeMinutes >= 60 * Micro
                THEN {"stale orderbook snapshot"} ELSE {})
        \cup (IF m.oneHourPriceChange = Null /\ m.oneDayPriceChange = Null
                THEN {"limited momentum history"} ELSE {})
        \cup (IF scoreResult.signal.confidence = "low"
                THEN {"low confidence signal"} ELSE {})

\* the rationale sentences with a condition of their own that holds, on the
\* unrounded edge and component scores
RationaleThatApplies ==
  LET l == scoreLocals
      c == l.componentScores
  IN  (IF l.edgePct >= Dec(75, 100) THEN {RationaleEdge} ELSE {})
        \cup (IF l.spreadBps # Null /\ c.spreadQuality >= Dec(65, 100)
                THEN {RationaleSpread} ELSE {})
        \cup (IF c.liquidityDepthQuality >= Dec(6, 10)
                THEN {RationaleLiquidity} ELSE {})
        \cup (IF c.momentumDislocation >= Dec(45, 100)
                THEN {RationaleMomentum} ELSE {})
        \cup (IF l.consistency.partitionDislocation # Null
                   /\ c.relatedMarketConsistency >= Dec(35, 100)
                THEN {RationalePartition} ELSE {})

\* C11: riskFlags and rationale are never empty; 'educational signal only' is
\* present exactly when no other risk flag applies and is then the only flag;
\* the generic rationale sentence is present exactly when no conditional
\* sentence applies and is then the only sentence; the other entries are
\* exactly the flags and sentences that apply.
C11_FallbackEntries ==
  ScoreDone =>
    LET flags == scoreResult.signal.riskFlags
        rationale == scoreResult.signal.rationale
    IN  /\ Len(flags) > 0
        /\ Len(rationale) > 0
        /\ ("educational signal only" \in Elements(flags))
             <=> (RiskFlagsThatApply = {})
        /\ ("educational signal only" \in Elements(flags))
             => flags = <<"educational signal only">>
        /\ Elements(flags) \ {"educational signal only"} = RiskFlagsThatApply
        /\ (RationaleGeneric \in Elements(rationale))
             <=> (RationaleThatApplies = {})
        /\ (RationaleGeneric \in Elements(rationale))
             => rationale = <<RationaleGeneric>>
        /\ Elements(rationale) \ {RationaleGeneric} = RationaleThatApplies
        /\ scoreResult.trace.riskFlags = flags
        /\ scoreResult.trace.rationale = rationale

\* C11 witness: a signal with no risk of its own carries the fallback flag
\* alone, next to a rationale of conditional sentences only.
C11_Witness ==
  /\ ScoreDone
  /\ scoreResult.signal.riskFlags = <<"educational signal only">>
  /\ Len(scoreResult.signal.rationale) >= 2
  /\ RationaleGeneric \notin Elements(scoreResult.signal.rationale)

\* a signal whose only rationale is the generic sentence
C11_GenericReached ==
  ScoreDone /\ scoreResult.signal.rationale = <<RationaleGeneric>>

(***************************************************************************)
(* SpecSnapshot: toOrderbookSnapshot on every order book of at most        *)
(* MaxLevels levels a side                                                 *)
(***************************************************************************)
MaxLevels == 2

\* the prices of the levels: none is excluded by asNumber, which accepts
\* every finite number
LevelPrices == {0 - Dec(10, 100), 0, Dec(42, 100), Dec(46, 100), Dec(130, 100)}

\* the ladders of at most n levels, in every order
Ladders(n) ==
  UNION { [1..k -> {[price |-> p, size |-> 10] : p \in LevelPrices}] :
            k \in 0..n }

\* raw timestamps: epoch milliseconds, an ISO instant, text that is neither,
\* "0", a year-like number that also parses as a date, and a number of
\* milliseconds beyond the range of Date
RawTimestamps ==
  { [number |-> NowMs - 60000, date |-> NaN],
    Timestamp(NowMs),
    BadTimestamp,
    [number |-> 0, date |-> NaN],
    [number |-> 2024, date |-> NowMs],
    [number |-> MaxTimeValue + 1, date |-> NaN] }

SnapshotInputs ==
  [assetId : {<<1>>}, bids : Ladders(MaxLevels), asks : Ladders(MaxLevels),
   timestamp : RawTimestamps]

\* nothing of the scoring engine or the scan is running
EngineIdle == ScoreIdle /\ RankIdle /\ ScanIdle

engineVars == <<scoreVars, rankVars, scanVars>>

InitSnapshot ==
  /\ snapshotInput \in SnapshotInputs
  /\ snapshotResult = Pending
  /\ EngineIdle
  /\ ChatIdle
  /\ OcIdle

Snapshot ==
  /\ snapshotInput # Pending
  /\ snapshotResult = Pending
  /\ snapshotResult' = toOrderbookSnapshot(snapshotInput)
  /\ UNCHANGED <<snapshotInput, engineVars, chatVars, ocVars>>

NextSnapshot == Snapshot

SpecSnapshot == InitSnapshot /\ [][NextSnapshot]_vars

(***************************************************************************)
(* Properties of toOrderbookSnapshot (SpecSnapshot)                        *)
(***************************************************************************)
\* the call has returned a snapshot
SnapshotReturned ==
  snapshotResult # Pending /\ snapshotResult # InvalidTime

\* the prices of a ladder
PricesOf(levels) == {levels[i].price : i \in 1..Len(levels)}

\* the largest of a non-empty set of numbers
Maximum(S) == CHOOSE x \in S : \A y \in S : y <= x

\* the smallest of a non-empty set of numbers
Minimum(S) == CHOOSE x \in S : \A y \in S : x <= y

\* bestBid and bestAsk are the maximum bid and the minimum ask, null on an
\* empty side, and the midpoint is their average clamped to [0.01, 0.99], null
\* unless both are there
BestPricesAndMidpoint ==
  LET bids == PricesOf(snapshotInput.bids)
      asks == PricesOf(snapshotInput.asks)
      r == snapshotResult
  IN  /\ r.bestBid = (IF bids = {} THEN Null ELSE Maximum(bids))
      /\ r.bestAsk = (IF asks = {} THEN Null ELSE Minimum(asks))
      /\ r.midpoint =
           (IF bids = {} \/ asks = {} THEN Null
            ELSE clamp((Maximum(bids) + Minimum(asks)) \div 2,
                       Dec(1, 100), Dec(99, 100)))
      /\ (r.spreadBps # Null) =>
           /\ bids # {} /\ asks # {}
           /\ r.spreadBps
                = Max(0, FDiv(Minimum(asks) - Maximum(bids),
                              (Maximum(bids) + Minimum(asks)) \div 2))

\* C12 as stated: best prices, midpoint and spread as above, and spreadBps is
\* null exactly when the midpoint is null.
C12_SnapshotAsStated ==
  SnapshotReturned =>
    /\ BestPricesAndMidpoint
    /\ (snapshotResult.spreadBps = Null) <=> (snapshotResult.midpoint = Null)

\* C12 amended: best prices, midpoint and spread as above, and spreadBps is
\* null exactly when the midpoint is null or the average of best bid and best
\* ask is not positive (the midpoint is then reported as 0.01).
C12_SnapshotOfLadders ==
  SnapshotReturned =>
    /\ BestPricesAndMidpoint
    /\ (snapshotResult.spreadBps = Null)
         <=> \/ snapshotResult.midpoint = Null
             \/ snapshotResult.bestBid + snapshotResult.bestAsk <= 0
    /\ (snapshotResult.midpoint # Null
          /\ snapshotResult.bestBid + snapshotResult.bestAsk <= 0)
         => snapshotResult.midpoint = Dec(1, 100)

\* C12 witness: the best bid 0.42 is the second bid and the best ask 0.46 the
\* second ask; the midpoint is 0.44 and the spread 909.09 bps.
C12_Witness ==
  /\ SnapshotReturned
  /\ Len(snapshotInput.bids) = 2
  /\ Len(snapshotInput.asks) = 2
  /\ snapshotInput.bids[1].price < snapshotInput.bids[2].price
  /\ snapshotInput.asks[1].price > snapshotInput.asks[2].price
  /\ snapshotResult.bestBid = Dec(42, 100)
  /\ snapshotResult.bestAsk = Dec(46, 100)
  /\ snapshotResult.midpoint = Dec(44, 100)
  /\ snapshotResult.spreadBps = 90909

\* C13: normalizing the timestamp never throws: the call returns a snapshot
\* whose timestamp is the ISO instant of a positive number of milliseconds,
\* else the ISO instant of a text that parses as a date, else the raw text;
\* numbers beyond the range of Date included.
C13_TimestampNeverThrows ==
  snapshotResult # Pending =>
    /\ snapshotResult # InvalidTime
    /\ LET raw == snapshotInput.timestamp
       IN  snapshotResult.timestamp =
             (IF raw.number # NaN /\ raw.number > 0
                THEN [number |-> NaN, date |-> raw.number]
              ELSE IF raw.date # NaN
                THEN [number |-> NaN, date |-> raw.date]
              ELSE raw)

\* the three rules on the timestamps that Date can hold
C13_RepresentableTimestamps ==
  (snapshotResult # Pending
     /\ snapshotInput.timestamp.number <= MaxTimeValue) =>
    /\ snapshotResult # InvalidTime
    /\ LET raw == snapshotInput.timestamp
       IN  snapshotResult.timestamp =
             (IF raw.number # NaN /\ raw.number > 0
                THEN [number |-> NaN, date |-> raw.number]
              ELSE IF raw.date # NaN
                THEN [number |-> NaN, date |-> raw.date]
              ELSE raw)

\* a call on a timestamp beyond the range of Date has thrown
C13_Thrown ==
  /\ snapshotInput # Pending
  /\ snapshotInput.timestamp.number > MaxTimeValue
  /\ snapshotResult = InvalidTime

(***************************************************************************)
(* SpecChat: the REPL of `cli chat` (runChat).  A step is what runs        *)
(* between two awaits: a line read at the prompt up to the next prompt or  *)
(* up to the agent call of runTurn, the end of a turn, a SIGINT.           *)
(***************************************************************************)
MaxLines == 4

\* the chat inputs typed
ChatInputs == {"a", "b"}

\* `currentAbort = null`
NoAbort == [isNull |-> TRUE]

\* {role: "user", content: input}
UserMessage(input) == [role |-> "user", content |-> input]

\* response.messages: n messages of the assistant answering input
ResponseMessages(input, n) ==
  [i \in 1..n |-> [role |-> "assistant", content |-> input]]

\* list.length = n that cuts one element too many
SetLengthShort(list, n) == SubSeq(list, 1, Max(0, n - 1))

\* list.length = n, for n <= list.length
SetLength(list, n) == SubSeq(list, 1, n)

\* list without its last element (after list.pop())
Popped(list) == SubSeq(list, 1, Len(list) - 1)

InitChat ==
  /\ chatPc = "prompt"
  /\ messages = <<>>
  /\ turnHistory = <<>>
  /\ lastRetriableInput = NullText
  /\ currentAbort = NoAbort
  /\ awaitingInput = TRUE
  /\ sigintCount = 0
  /\ verbose \in BOOLEAN
  /\ turnInput = NullText
  /\ turnStartIndex = 0
  /\ linesRead = 0
  /\ lastLine = NullText
  /\ atLastLine = Pending
  /\ submitted = Pending
  /\ turnFound = <<>>
  /\ EngineIdle
  /\ SnapshotIdle
  /\ OcIdle

\* rl.question resolves with line: awaitingInput = false, sigintCount = 0
ReadLine(line) ==
  /\ chatPc = "prompt"
  /\ linesRead < MaxLines
  /\ linesRead' = linesRead + 1
  /\ lastLine' = line
  /\ atLastLine' = [messages |-> messages, turnFound |-> turnFound]
  /\ sigintCount' = 0

\* `continue`: the loop is back at rl.question
BackAtPrompt ==
  /\ chatPc' = "prompt"
  /\ awaitingInput' = TRUE
  /\ currentAbort' = NoAbort
  /\ UNCHANGED <<turnInput, turnStartIndex>>

\* runTurn that reads messages.length after the push of the user message
RunTurnLateIndex(input, list, found) ==
  /\ turnStartIndex' = Len(list) + 1
  /\ turnInput' = input
  /\ lastRetriableInput' = input
  /\ messages' = Append(list, UserMessage(input))
  /\ turnFound' = Append(found, list)
  /\ currentAbort' = [aborted |-> FALSE]
  /\ awaitingInput' = FALSE
  /\ chatPc' = "responding"

\* runTurn(input) up to its `await agent.stream`, entered with `messages` and
\* the turns as given
RunTurn(input, list, found) ==
  /\ turnStartIndex' = Len(list)
  /\ turnInput' = input
  /\ lastRetriableInput' = input
  /\ messages' = Append(list, UserMessage(input))
  /\ turnFound' = Append(found, list)
  /\ currentAbort' = [aborted |-> FALSE]
  /\ awaitingInput' = FALSE
  /\ chatPc' = "responding"

\* an empty line, /help, /status or an unknown command
ChatOther(line) ==
  /\ ReadLine(line)
  /\ BackAtPrompt
  /\ UNCHANGED <<messages, turnHistory, lastRetriableInput, verbose,
                 submitted, turnFound>>
  /\ UNCHANGED <<snapVars, engineVars, ocVars>>

\* /verbose on, /verbose off, or /verbose with anything else
ChatVerbose(mode) ==
  /\ ReadLine("/verbose")
  /\ verbose' = (IF mode = "on" THEN TRUE
                 ELSE IF mode = "off" THEN FALSE ELSE verbose)
  /\ BackAtPrompt
  /\ UNCHANGED <<messages, turnHistory, lastRetriableInput, submitted,
                 turnFound>>
  /\ UNCHANGED <<snapVars, engineVars, ocVars>>

\* /exit or /quit: runChat returns
ChatExit ==
  /\ ReadLine("/exit")
  /\ chatPc' = "exited"
  /\ awaitingInput' = FALSE
  /\ UNCHANGED <<messages, turnHistory, lastRetriableInput, currentAbort,
                 verbose, turnInput, turnStartIndex, submitted, turnFound>>
  /\ UNCHANGED <<snapVars, engineVars, ocVars>>

ChatClear ==
  /\ ReadLine("/clear")
  /\ messages' = SetLength(messages, 0)
  /\ turnHistory' = SetLength(turnHistory, 0)
  /\ lastRetriableInput' = NullText
  /\ turnFound' = <<>>
  /\ BackAtPrompt
  /\ UNCHANGED <<verbose, submitted>>
  /\ UNCHANGED <<snapVars, engineVars, ocVars>>

ChatUndo ==
  /\ ReadLine("/undo")
  /\ IF Len(turnHistory) = 0
       THEN UNCHANGED <<messages, turnHistory, lastRetriableInput, turnFound>>
       ELSE LET removedTurn == turnHistory[Len(turnHistory)]
            IN  /\ turnHistory' = Popped(turnHistory)
                /\ messages' = SetLength(messages, removedTurn.startIndex)
                /\ lastRetriableInput' = removedTurn.userInput
                /\ turnFound' = Popped(turnFound)
  /\ BackAtPrompt
  /\ UNCHANGED <<verbose, submitted>>
  /\ UNCHANGED <<snapVars, engineVars, ocVars>>

\* `messages` once /retry has popped the last completed turn, if there is one
AfterRetryPop ==
  IF Len(turnHistory) = 0 THEN messages
  ELSE SetLength(messages, turnHistory[Len(turnHistory)].startIndex)

\* `lastRetriableInput` once /retry has popped the last completed turn
RetryInput ==
  IF Len(turnHistory) = 0 THEN lastRetriableInput
  ELSE turnHistory[Len(turnHistory)].userInput

ChatRetry ==
  /\ ReadLine("/retry")
  /\ turnHistory' = (IF Len(turnHistory) = 0 THEN turnHistory
                     ELSE Popped(turnHistory))
  /\ IF RetryInput = NullText
       THEN /\ BackAtPrompt
            /\ UNCHANGED <<messages, lastRetriableInput, turnFound>>
       ELSE RunTurn(RetryInput, AfterRetryPop,
                    IF Len(turnHistory) = 0 THEN turnFound
                    ELSE Popped(turnFound))
  /\ UNCHANGED <<verbose, submitted>>
  /\ UNCHANGED <<snapVars, engineVars, ocVars>>

\* a chat input: runTurn(input)
ChatSubmit(input) ==
  /\ ReadLine(input)
  /\ submitted' = [input |-> input, found |-> messages]
  /\ RunTurn(input, messages, turnFound)
  /\ UNCHANGED <<turnHistory, verbose>>
  /\ UNCHANGED <<snapVars, engineVars, ocVars>>

\* the stream ends and the response arrives with n messages: the turn is
\* recorded (also when an abort came too late to stop it)
TurnComplete(n) ==
  /\ chatPc = "responding"
  /\ messages' = messages \o ResponseMessages(turnInput, n)
  /\ turnHistory' =
       Append(turnHistory,
              [startIndex |-> turnStartIndex, userInput |-> turnInput])
  /\ BackAtPrompt
  /\ UNCHANGED <<lastRetriableInput, sigintCount, verbose, linesRead,
                 lastLine, atLastLine, submitted, turnFound>>
  /\ UNCHANGED <<snapVars, engineVars, ocVars>>

\* the agent call or the stream throws, on an error or on the abort of an
\* interrupted turn: the catch block rolls `messages` back
TurnFail ==
  /\ chatPc = "responding"
  /\ messages' = SetLength(messages, turnStartIndex)
  /\ turnFound' = Popped(turnFound)
  /\ BackAtPrompt
  /\ UNCHANGED <<turnHistory, lastRetriableInput, sigintCount, verbose,
                 linesRead, lastLine, atLastLine, submitted>>
  /\ UNCHANGED <<snapVars, engineVars, ocVars>>

\* handleSigint
ChatSigint ==
  /\ chatPc \in {"prompt", "responding"}
  /\ IF currentAbort # NoAbort
       THEN /\ currentAbort' = [aborted |-> TRUE]
            /\ UNCHANGED <<chatPc, sigintCount>>
       ELSE IF awaitingInput /\ sigintCount + 1 = 1
         THEN /\ sigintCount' = sigintCount + 1
              /\ UNCHANGED <<chatPc, currentAbort>>
         ELSE /\ sigintCount' =
                   (IF awaitingInput THEN sigintCount + 1 ELSE sigintCount)
              /\ chatPc' = "exited"
              /\ UNCHANGED currentAbort
  /\ UNCHANGED <<messages, turnHistory, lastRetriableInput, awaitingInput,
                 verbose, turnInput, turnStartIndex, linesRead, lastLine,
                 atLastLine, submitted, turnFound>>
  /\ UNCHANGED <<snapVars, engineVars, ocVars>>

NextChat ==
  \/ \E line \in {"", "/help", "/status", "/bogus"} : ChatOther(line)
  \/ \E mode \in {"on", "off", "(undefined)"} : ChatVerbose(mode)
  \/ ChatExit
  \/ ChatClear
  \/ ChatUndo
  \/ ChatRetry
  \/ \E input \in ChatInputs : ChatSubmit(input)
  \/ \E n \in 1..2 : TurnComplete(n)
  \/ TurnFail
  \/ ChatSigint

SpecChat == InitChat /\ [][NextChat]_vars

(***************************************************************************)
(* Properties of the cli chat REPL (SpecChat)                              *)
(***************************************************************************)
\* /retry has just started a turn
RetryRunning == chatPc = "responding" /\ lastLine = "/retry"

\* `messages` as /retry found them, less the turn of the last chat input typed
\* if its messages were still there
WithoutSubmittedTurn ==
  IF Len(atLastLine.messages) > Len(submitted.found)
    THEN submitted.found
    ELSE atLastLine.messages

\* C14: the input /retry sends to the model is the chat input typed last,
\* whether its turn completed, failed or was interrupted; only that input's
\* turn is replaced and the messages of earlier completed turns stay.
C14_RetryResendsLastInput ==
  RetryRunning =>
    /\ submitted # Pending
    /\ turnInput = submitted.input
    /\ messages = Append(WithoutSubmittedTurn, UserMessage(submitted.input))

\* a completed turn of "a", then a failed or interrupted turn of "b", then
\* /retry: it sends "a" again, in place of the completed turn
C14_RetrySentEarlierInput ==
  /\ RetryRunning
  /\ linesRead = 3
  /\ submitted = [input |-> "b",
                  found |-> <<UserMessage("a")>> \o ResponseMessages("a", 1)]
  /\ atLastLine.messages = submitted.found
  /\ turnInput = "a"
  /\ messages = <<UserMessage("a")>>

\* /undo has just been handled
UndoHandled == chatPc = "prompt" /\ lastLine = "/undo"

\* the messages /undo removed
UndoRemoved ==
  SubSeq(atLastLine.messages, Len(messages) + 1, Len(atLastLine.messages))

\* C15: /undo removes exactly the messages of the most recent remaining
\* completed turn, its user message and its response messages, and so restores
\* `messages` as that turn's input found them, the earlier messages untouched;
\* every further /undo does the same for the turn before; with no completed
\* turn left /undo changes nothing.
C15_UndoRestoresBeforeTurn ==
  /\ Len(turnFound) = Len(turnHistory) + (IF chatPc = "responding" THEN 1 ELSE 0)
  /\ UndoHandled =>
       IF atLastLine.turnFound = <<>>
         THEN messages = atLastLine.messages
         ELSE /\ messages = atLastLine.turnFound[Len(atLastLine.turnFound)]
              /\ turnFound = Popped(atLastLine.turnFound)
              /\ messages = SubSeq(atLastLine.messages, 1, Len(messages))
              /\ Len(UndoRemoved) >= 2
              /\ \A i \in 1..Len(UndoRemoved) :
                   (UndoRemoved[i].role = "user") <=> (i = 1)

\* C15 witness: after two completed turns a first /undo has removed the three
\* messages of the second turn and kept the two of the first.
C15_Witness ==
  /\ UndoHandled
  /\ Len(atLastLine.turnFound) = 2
  /\ Len(atLastLine.messages) = 5
  /\ messages = <<UserMessage("a")>> \o ResponseMessages("a", 1)

\* a second /undo in a row has emptied the history
C15_SecondUndo ==
  /\ UndoHandled
  /\ linesRead = 4
  /\ Len(atLastLine.turnFound) = 1
  /\ messages = <<>>
  /\ turnHistory = <<>>

(***************************************************************************)
(* SpecOcChat: the REPL of `oc-cli chat` (runChat of repl.ts).  A step is  *)
(* what runs between two awaits that wait for the outside world; a SIGINT  *)
(* is delivered between steps.                                             *)
(***************************************************************************)
MaxOcLines == 3

InitOcChat ==
  /\ ocPc = "prompt"
  /\ ocRuntime = FALSE
  /\ ocSessionId = FALSE
  /\ ocCurrentAbort = NoAbort
  /\ ocAwaitingInput = TRUE
  /\ ocSigintCount = 0
  /\ ocVerbose \in BOOLEAN
  /\ ocLinesRead = 0
  /\ ocPresses = 0
  /\ ocExit = Pending
  /\ EngineIdle
  /\ SnapshotIdle
  /\ ChatIdle

\* rl.question resolves with a line: awaitingInput = false, sigintCount = 0
OcReadLine ==
  /\ ocPc = "prompt"
  /\ ocLinesRead < MaxOcLines
  /\ ocLinesRead' = ocLinesRead + 1
  /\ ocPresses' = 0
  /\ ocSigintCount' = 0

\* `continue`, through the turn's `finally` when it comes from a turn: the
\* loop is back at rl.question
OcBackAtPrompt ==
  /\ ocPc' = "prompt"
  /\ ocAwaitingInput' = TRUE
  /\ ocCurrentAbort' = NoAbort

\* an empty line, /help, /status or an unknown command
OcOther(line) ==
  /\ OcReadLine
  /\ OcBackAtPrompt
  /\ UNCHANGED <<ocRuntime, ocSessionId, ocVerbose, ocExit>>
  /\ UNCHANGED <<snapVars, engineVars, chatVars>>

\* /verbose on, /verbose off, or /verbose with anything else
OcVerbose(mode) ==
  /\ OcReadLine
  /\ ocVerbose' = (IF mode = "on" THEN TRUE
                   ELSE IF mode = "off" THEN FALSE ELSE ocVerbose)
  /\ OcBackAtPrompt
  /\ UNCHANGED <<ocRuntime, ocSessionId, ocExit>>
  /\ UNCHANGED <<snapVars, engineVars, chatVars>>

\* /exit or /quit: runChat returns through its `finally`
OcExit ==
  /\ OcReadLine
  /\ ocPc' = "exited"
  /\ ocAwaitingInput' = FALSE
  /\ ocRuntime' = FALSE
  /\ ocSessionId' = (IF ocRuntime THEN FALSE ELSE ocSessionId)
  /\ ocExit' = [by |-> "/exit"]
  /\ UNCHANGED <<ocCurrentAbort, ocVerbose>>
  /\ UNCHANGED <<snapVars, engineVars, chatVars>>

\* /clear up to the first await of resetSession that waits for the outside
OcClear ==
  /\ OcReadLine
  /\ ocPc' = "resetting"
  /\ ocAwaitingInput' = FALSE
  /\ UNCHANGED <<ocRuntime, ocSessionId, ocCurrentAbort, ocVerbose, ocExit>>
  /\ UNCHANGED <<snapVars, engineVars, chatVars>>

\* resetSession resolves: a fresh runtime and session
OcResetDone ==
  /\ ocPc = "resetting"
  /\ ocRuntime' = TRUE
  /\ ocSessionId' = TRUE
  /\ OcBackAtPrompt
  /\ UNCHANGED <<ocSigintCount, ocVerbose, ocLinesRead, ocPresses, ocExit>>
  /\ UNCHANGED <<snapVars, engineVars, chatVars>>

\* resetSession rejects (createOpencode or session.create failed): the error
\* leaves runChat through its `finally`
OcResetFail ==
  /\ ocPc = "resetting"
  /\ ocPc' = "exited"
  /\ ocRuntime' = FALSE
  /\ ocSessionId' = FALSE
  /\ ocExit' = [by |-> "error"]
  /\ UNCHANGED <<ocCurrentAbort, ocAwaitingInput, ocSigintCount, ocVerbose,
                 ocLinesRead, ocPresses>>
  /\ UNCHANGED <<snapVars, engineVars, chatVars>>

\* a chat input: with a runtime and a session ensureReady resolves at once
\* and the turn goes on to event.subscribe with its controller installed;
\* without, the turn waits for ensureReady, currentAbort still null
OcSubmit ==
  /\ OcReadLine
  /\ ocAwaitingInput' = FALSE
  /\ IF ocRuntime /\ ocSessionId
       THEN /\ ocPc' = "subscribing"
            /\ ocCurrentAbort' = [aborted |-> FALSE]
       ELSE /\ ocPc' = "starting"
            /\ UNCHANGED ocCurrentAbort
  /\ UNCHANGED <<ocRuntime, ocSessionId, ocVerbose, ocExit>>
  /\ UNCHANGED <<snapVars, engineVars, chatVars>>

\* ensureReady resolves: currentAbort = turnAbort, then event.subscribe
OcStarted ==
  /\ ocPc = "starting"
  /\ ocRuntime' = TRUE
  /\ ocSessionId' = TRUE
  /\ ocCurrentAbort' = [aborted |-> FALSE]
  /\ ocPc' = "subscribing"
  /\ UNCHANGED <<ocAwaitingInput, ocSigintCount, ocVerbose, ocLinesRead,
                 ocPresses, ocExit>>
  /\ UNCHANGED <<snapVars, engineVars, chatVars>>

\* ensureReady rejects, leaving a runtime behind or not: the turn's catch
\* reports the error
OcStartFail(runtimeMade) ==
  /\ ocPc = "starting"
  /\ ocRuntime' = (ocRuntime \/ runtimeMade)
  /\ OcBackAtPrompt
  /\ UNCHANGED <<ocSessionId, ocSigintCount, ocVerbose, ocLinesRead,
                 ocPresses, ocExit>>
  /\ UNCHANGED <<snapVars, engineVars, chatVars>>

\* event.subscribe resolves: the stream task and the prompt request start
OcSubscribed ==
  /\ ocPc = "subscribing"
  /\ ocPc' = "responding"
  /\ UNCHANGED <<ocRuntime, ocSessionId, ocCurrentAbort, ocAwaitingInput,
                 ocSigintCount, ocVerbose, ocLinesRead, ocPresses, ocExit>>
  /\ UNCHANGED <<snapVars, engineVars, chatVars>>

\* event.subscribe, the stream or the prompt request rejects: the turn's catch
OcTurnFail ==
  /\ ocPc \in {"subscribing", "responding"}
  /\ OcBackAtPrompt
  /\ UNCHANGED <<ocRuntime, ocSessionId, ocSigintCount, ocVerbose,
                 ocLinesRead, ocPresses, ocExit>>
  /\ UNCHANGED <<snapVars, engineVars, chatVars>>

\* the stream task and the prompt request are both done: an interrupted turn
\* goes on to session.abort, any other is over
OcTurnEnd ==
  /\ ocPc = "responding"
  /\ IF ocCurrentAbort.aborted
       THEN /\ ocPc' = "aborting"
            /\ UNCHANGED <<ocCurrentAbort, ocAwaitingInput>>
       ELSE OcBackAtPrompt
  /\ UNCHANGED <<ocRuntime, ocSessionId, ocSigintCount, ocVerbose,
                 ocLinesRead, ocPresses, ocExit>>
  /\ UNCHANGED <<snapVars, engineVars, chatVars>>

\* session.abort settles, either way: "Interrupted."
OcAbortSettled ==
  /\ ocPc = "aborting"
  /\ OcBackAtPrompt
  /\ UNCHANGED <<ocRuntime, ocSessionId, ocSigintCount, ocVerbose,
                 ocLinesRead, ocPresses, ocExit>>
  /\ UNCHANGED <<snapVars, engineVars, chatVars>>

\* handleSigint of repl.ts
OcSigint ==
  /\ ocPc \notin {"idle", "exited"}
  /\ ocPresses' = (IF ocPc = "prompt" THEN ocPresses + 1 ELSE ocPresses)
  /\ IF ocCurrentAbort # NoAbort
       THEN /\ ocCurrentAbort' = [aborted |-> TRUE]
            /\ UNCHANGED <<ocPc, ocSigintCount, ocExit>>
       ELSE IF ocAwaitingInput /\ ocSigintCount + 1 = 1
         THEN /\ ocSigintCount' = ocSigintCount + 1
              /\ UNCHANGED <<ocPc, ocCurrentAbort, ocExit>>
         ELSE /\ ocSigintCount' =
                   (IF ocAwaitingInput THEN ocSigintCount + 1
                    ELSE ocSigintCount)
              /\ ocPc' = "exited"
              /\ ocExit' = [by |-> "SIGINT", at |-> ocPc,
                            presses |-> ocPresses']
              /\ UNCHANGED ocCurrentAbort
  /\ UNCHANGED <<ocRuntime, ocSessionId, ocAwaitingInput, ocVerbose,
                 ocLinesRead>>
  /\ UNCHANGED <<snapVars, engineVars, chatVars>>

NextOcChat ==
  \/ \E line \in {"", "/help", "/status", "/bogus"} : OcOther(line)
  \/ \E mode \in {"on", "off", "(undefined)"} : OcVerbose(mode)
  \/ OcExit
  \/ OcClear
  \/ OcResetDone
  \/ OcResetFail
  \/ OcSubmit
  \/ OcStarted
  \/ \E runtimeMade \in BOOLEAN : OcStartFail(runtimeMade)
  \/ OcSubscribed
  \/ OcTurnFail
  \/ OcTurnEnd
  \/ OcAbortSettled
  \/ OcSigint

SpecOcChat == InitOcChat /\ [][NextOcChat]_vars

(***************************************************************************)
(* Properties of the oc-cli chat REPL (SpecOcChat)                         *)
(***************************************************************************)
\* C16: a Ctrl+C ends the process only at the prompt, and only as the second
\* Ctrl+C at that prompt; a Ctrl+C between the submission of a line and the
\* next prompt never does.
C16_ExitOnSecondCtrlCAtPrompt ==
  (ocExit # Pending /\ ocExit.by = "SIGINT") =>
    /\ ocExit.at = "prompt"
    /\ ocExit.presses = 2

\* what holds of the code: a Ctrl+C at the prompt ends the process only as the
\* second one there, and a Ctrl+C while a turn's controller is installed only
\* interrupts the turn
C16_ExitAtPromptIsSecond ==
  /\ (ocExit # Pending /\ ocExit.by = "SIGINT" /\ ocExit.at = "prompt")
       => ocExit.presses = 2
  /\ (ocExit # Pending /\ ocExit.by = "SIGINT")
       => ocExit.at \in {"prompt", "starting", "resetting"}

\* a single Ctrl+C, pressed while the first turn waits for the OpenCode server
\* to start, has ended the process
C16_ExitedWhileStarting ==
  /\ ocExit # Pending
  /\ ocExit.by = "SIGINT"
  /\ ocExit.at = "starting"
  /\ ocExit.presses = 0
  /\ ocLinesRead = 1

(***************************************************************************)
(* Properties of mapWithConcurrency inside the scan (SpecScan)             *)
(***************************************************************************)
\* the token whose order book is asked for candidate i
TokenOf(i) == resolveReferenceTokenId(scanCandidates[i])

\* the indexes (from 1) that workers hold while they await the mapper
HeldSlots ==
  {workers[w].currentIndex + 1 :
     w \in {v \in 1..Len(workers) : workers[v].awaits # "nothing"}}

\* C17: under every interleaving of completions the mapper is called on the
\* items in index order, never twice on one item and, once the pool is done,
\* once on every item; no two workers hold the same index; a result is stored
\* at the index of its item, so that snapshots[i], when it is a snapshot, is
\* the order book of candidate i's token, and candidate i is handed to the
\* ranker with snapshots[i].
C17_EachIndexOnceInPlace ==
  (scanPc \in {"pool", "done"} /\ Len(scanCandidates) > 0
     /\ (scanPc = "done" => scanResult.ok)) =>
    /\ Len(fetchLog) = Len(scanCandidates)
    /\ Len(results) = Len(scanCandidates)
    /\ \A i \in 1..Len(scanCandidates) :
         /\ fetchLog[i].calls = (IF i <= index THEN 1 ELSE 0)
         /\ (results[i] # Pending /\ results[i] # NullOrderbook)
              => results[i].tokenId = TokenOf(i)
         /\ (results[i] # Pending) => (fetchLog[i].calls = 1 /\ i \notin HeldSlots)
         /\ (fetchLog[i].ended = "resolved") => results[i] # Pending
    /\ Cardinality(HeldSlots)
         = Cardinality({w \in 1..Len(workers) : workers[w].awaits # "nothing"})
    /\ scanPc = "done" =>
         /\ index = Len(scanCandidates)
         /\ \A i \in 1..Len(scanCandidates) :
              /\ fetchLog[i].calls = 1
              /\ results[i] # Pending
              /\ handed[i].market = scanCandidates[i]
              /\ handed[i].orderbook = results[i]

\* C17 witness: with two workers and three candidates the second candidate's
\* order book has arrived before the first's; it sits at index 2 and the
\* worker that fetched it has taken the third candidate.
C17_Witness ==
  /\ scanPc = "pool"
  /\ Len(scanCandidates) = 3
  /\ Len(workers) = 2
  /\ fetchLog[1].ended = "pending"
  /\ fetchLog[2].ended = "resolved"
  /\ results[1] = Pending
  /\ results[2] # Pending
  /\ results[2].tokenId = TokenOf(2)
  /\ workers[2].currentIndex = 2
  /\ index = 3


\* ---------------------------------------------------------------------
\* Properties of the partition estimator inside the scorer
\* ---------------------------------------------------------------------

\* the subject market followed by its related markets
MergedMarkets == <<scoreInput.market>> \o scoreInput.relatedMarkets

\* the positions of MergedMarkets that hold the first market of their id and
\* a market that is active and not closed
PeerPositions ==
  {i \in 1..Len(MergedMarkets) :
     /\ \A j \in 1..(i - 1) : MergedMarkets[j].id # MergedMarkets[i].id
     /\ MergedMarkets[i].active
     /\ ~MergedMarkets[i].closed}

\* the peers that have a YES probability
UsablePositions ==
  {i \in PeerPositions : getYesProbability(MergedMarkets[i]) # Null}

\* the sum of the YES probabilities of the usable peers
UsableSum ==
  LET upTo[i \in 0..Len(MergedMarkets)] ==
        IF i = 0 THEN 0
        ELSE upTo[i - 1] + (IF i \in UsablePositions
                              THEN getYesProbability(MergedMarkets[i])
                              ELSE 0)
  IN  upTo[Len(MergedMarkets)]

PartitionApplies ==
  /\ Cardinality(PeerPositions) >= 3
  /\ Cardinality(UsablePositions) >= 3
  /\ UsableSum >= Dec(6, 10)
  /\ UsableSum <= Dec(14, 10)

\* C18: the partition estimator yields a non-null partitionDislocation exactly
\* when at least 3 peers remain of the subject and its related markets after
\* deduplicating by id and keeping the active non-closed ones, at least 3 of
\* them have a YES probability and those sum to a value in [0.6, 1.4]; then
\* dislocation = 1 - sum, score = min(1, |dislocation| / 0.25) and
\* fairAdjustment has the sign of the dislocation and magnitude at most 0.2;
\* otherwise score = 0, fairAdjustment = 0 and partitionDislocation = null.
C18_PartitionEstimator ==
  scoreResult # Pending =>
    LET consistency == scoreLocals.consistency
        dislocation == Micro - UsableSum
    IN  /\ (consistency.partitionDislocation # Null) <=> PartitionApplies
        /\ PartitionApplies =>
             /\ consistency.partitionDislocation = dislocation
             /\ consistency.score =
                  Min(Micro, FDiv(Abs(dislocation), Dec(25, 100)))
             /\ dislocation > 0 => consistency.fairAdjustment > 0
             /\ dislocation < 0 => consistency.fairAdjustment < 0
             /\ dislocation = 0 => consistency.fairAdjustment = 0
             /\ Abs(consistency.fairAdjustment) <= Dec(2, 10)
             /\ scoreResult.trace.partitionDislocation = round4(dislocation)
        /\ ~PartitionApplies =>
             /\ consistency.score = 0
             /\ consistency.fairAdjustment = 0
             /\ scoreResult.trace.partitionDislocation = Null
        /\ scoreResult.trace.peerCount =
             Max(0, Cardinality(PeerPositions) - 1)
        /\ scoreResult.trace.componentScores.relatedMarketConsistency =
             round4(consistency.score)

\* three peers at 0.30 each: dislocation 0.1 and a positive adjustment
C18_Witness ==
  /\ scoreResult # Pending
  /\ Cardinality(UsablePositions) = 3
  /\ \A i \in UsablePositions :
       getYesProbability(MergedMarkets[i]) = Dec(30, 100)
  /\ scoreResult.trace.partitionDislocation = Dec(10, 100)
  /\ scoreLocals.consistency.fairAdjustment > 0

\* a group whose probabilities sum to more than 1 is scored
C18_Overpriced ==
  /\ scoreResult # Pending
  /\ PartitionApplies
  /\ scoreLocals.consistency.partitionDislocation < 0
  /\ scoreLocals.consistency.score = Micro

\* three peers remain, fewer than three of them usable, the rest in range
C18_TooFewUsable ==
  /\ scoreResult # Pending
  /\ Cardinality(PeerPositions) >= 3
  /\ Cardinality(UsablePositions) < 3
  /\ UsableSum >= Dec(6, 10)

\* three usable peers whose sum is out of range
C18_OutOfRange ==
  /\ scoreResult # Pending
  /\ Cardinality(UsablePositions) >= 3
  /\ UsableSum > Dec(14, 10)


\* ---------------------------------------------------------------------
\* Properties of the probability resolver inside the scorer
\* ---------------------------------------------------------------------

\* the position of the first outcome labelled YES (trimmed, any case), or the
\* first position when no outcome is
YesPosition ==
  LET outcomes == scoreInput.market.outcomes
      labelled == {i \in 1..Len(outcomes) : TrimUpper(outcomes[i]) = "YES"}
  IN  IF labelled = {} THEN 1
      ELSE CHOOSE i \in labelled : \A j \in labelled : i <= j

\* the outcome price at YesPosition as the market carries it, Null without one
PriceAtYes ==
  LET outcomePrices == scoreInput.market.outcomePrices
  IN  IF YesPosition > Len(outcomePrices) THEN Null
      ELSE outcomePrices[YesPosition]

\* the same price brought into [0.01, 0.99]
ClampedPriceAtYes ==
  IF PriceAtYes = Null THEN Null
  ELSE Min(Dec(99, 100), Max(Dec(1, 100), PriceAtYes))

\* the average of the market's own best bid and ask in [0.01, 0.99]
QuoteMidpoint ==
  LET market == scoreInput.market
  IN  IF market.bestBid = Null \/ market.bestAsk = Null THEN Null
      ELSE Min(Dec(99, 100),
               Max(Dec(1, 100), (market.bestBid + market.bestAsk) \div 2))

\* the midpoint of the snapshot handed to the scorer, Null without one
OrderbookMidpoint ==
  IF scoreInput.orderbook = NullOrderbook THEN Null
  ELSE scoreInput.orderbook.midpoint

\* order book over quote over outcome price, then the clamp
ProbabilityByPrecedence(outcomeProb) ==
  LET second == IF QuoteMidpoint # Null THEN QuoteMidpoint
                ELSE IF outcomeProb # Null THEN outcomeProb
                ELSE OrderbookMidpoint
      unclamped ==
        IF OrderbookMidpoint # Null
          THEN FMul(OrderbookMidpoint, Dec(55, 100))
                 + FMul(second, Dec(45, 100))
        ELSE IF QuoteMidpoint # Null
          THEN FMul(QuoteMidpoint, Dec(70, 100))
                 + FMul(IF outcomeProb # Null THEN outcomeProb
                        ELSE QuoteMidpoint, Dec(30, 100))
        ELSE IF outcomeProb # Null THEN outcomeProb
        ELSE Dec(5, 10)
  IN  Min(Dec(99, 100), Max(Dec(1, 100), unclamped))

\* C19 as stated: marketProb follows the precedence order book over quote
\* over outcome price, outcomeProb being the outcome price at the index of the
\* outcome labelled YES (or at index 0), and the result is clamped to
\* [0.01, 0.99].
C19_PrecedenceOverRawPrice ==
  scoreResult # Pending =>
    scoreLocals.marketProb = ProbabilityByPrecedence(PriceAtYes)

\* C19 amended: the same precedence with outcomeProb being that outcome price
\* clamped to [0.01, 0.99] before it is blended (null when outcomePrices has
\* no price at that index); the signal reports the result rounded to 4 places.
C19_PrecedenceOverClampedPrice ==
  scoreResult # Pending =>
    /\ scoreLocals.marketProb = ProbabilityByPrecedence(ClampedPriceAtYes)
    /\ scoreResult.signal.marketProb = round4(scoreLocals.marketProb)

\* an order-book midpoint blended with the outcome price of the outcome
\* labelled " yes " at the second index, no quote on the market
C19_Witness ==
  /\ scoreResult # Pending
  /\ OrderbookMidpoint = Dec(44, 100)
  /\ QuoteMidpoint = Null
  /\ YesPosition = 2
  /\ PriceAtYes = Dec(996, 1000)
  /\ scoreLocals.marketProb = Dec(11, 16)  \* 0.55 x 0.44 + 0.45 x 0.99

\* a quote midpoint blended with an outcome price above 0.99: the price
\* enters the blend as 0.99
C19_PriceClampedBeforeBlend ==
  /\ scoreResult # Pending
  /\ OrderbookMidpoint = Null
  /\ QuoteMidpoint = Dec(44, 100)
  /\ PriceAtYes = Dec(996, 1000)
  /\ scoreLocals.marketProb = Dec(605, 1000)
  /\ ProbabilityByPrecedence(PriceAtYes) > Dec(605, 1000)

\* no order book, no quote and no outcome price: 0.5
C19_Default ==
  /\ scoreResult # Pending
  /\ OrderbookMidpoint = Null /\ QuoteMidpoint = Null /\ PriceAtYes = Null
  /\ scoreLocals.marketProb = Dec(5, 10)


\* ---------------------------------------------------------------------
\* The ranker over candidates whose spread comes from each source
\* ---------------------------------------------------------------------

\* a market of the event with the given quote and spread field
SpreadMarket(id, quote, spread) ==
  MakeMarket(id, id,
             [outcomes |-> <<"Yes", "No">>,
              outcomePrices |-> <<Dec(30, 100), Dec(70, 100)>>],
             quote, spread, 99999, 999999,
             [oneHour |-> 0 - Dec(40, 100), oneDay |-> 0 - Dec(40, 100)],
             TRUE, FALSE)

\* a snapshot, one minute old, with the given spreadBps
SpreadSnapshot(spreadBps) ==
  [tokenId |-> <<1>>, bestBid |-> Dec(42, 100), bestAsk |-> Dec(46, 100),
   midpoint |-> Dec(44, 100), spreadBps |-> spreadBps,
   timestamp |-> Timestamp(NowMs - 60000)]

NoQuote == [bestBid |-> Null, bestAsk |-> Null]

SpreadPool ==
  { \* the order book's 909.09 bps ahead of the market's 20 bps
    [market |-> SpreadMarket(<<1>>, NoQuote, Dec(2, 1000)),
     orderbook |-> SpreadSnapshot(90909), relatedMarkets |-> <<>>],
    \* a snapshot without a spread: the market's 20 bps
    [market |-> SpreadMarket(<<2>>, NoQuote, Dec(2, 1000)),
     orderbook |-> SpreadSnapshot(Null), relatedMarkets |-> <<>>],
    \* no snapshot, no spread field: derived from the quote 0.42 / 0.46
    [market |-> SpreadMarket(<<3>>, [bestBid |-> Dec(42, 100),
                                     bestAsk |-> Dec(46, 100)], Null),
     orderbook |-> NullOrderbook, relatedMarkets |-> <<>>],
    \* no snapshot, no spread field, half a quote: no spread at all
    [market |-> SpreadMarket(<<4>>, [bestBid |-> Dec(29, 100),
                                     bestAsk |-> Null], Null),
     orderbook |-> NullOrderbook, relatedMarkets |-> <<>>],
    \* a negative spread field
    [market |-> SpreadMarket(<<5>>, NoQuote, 0 - Dec(2, 1000)),
     orderbook |-> NullOrderbook, relatedMarkets |-> <<>>],
    \* the order book's 20 bps ahead of the market's 1000 bps
    [market |-> SpreadMarket(<<6>>, NoQuote, Dec(1, 10)),
     orderbook |-> SpreadSnapshot(2000), relatedMarkets |-> <<>>],
    \* a quote whose midpoint is 0
    [market |-> SpreadMarket(<<7>>, [bestBid |-> 0, bestAsk |-> 0], Null),
     orderbook |-> NullOrderbook, relatedMarkets |-> <<>>] }

RankSpreadInputs ==
  [candidates : SeqsUpTo(SpreadPool, MaxCandidates),
   nowIso : {Timestamp(NowMs)},
   timeHorizonHours : {Undefined},
   minVolume : {Undefined},
   maxSpreadBps : {Undefined, 0, 80000},
   minEdgePct : {Undefined},
   limit : {Undefined},
   includeTrace : {TRUE}]

InitRankSpread ==
  /\ rankInput \in RankSpreadInputs
  /\ rankScored = Pending
  /\ rankResult = Pending
  /\ rankSwap = 0
  /\ rankAgain = Pending
  /\ ScoreIdle
  /\ ScanIdle
  /\ ExtraIdle

SpecRankSpread == InitRankSpread /\ [][NextRank]_vars

\* the spread of a candidate by the precedence rule: the order book's
\* spreadBps, else the market's spread field x 10000, else the spread derived
\* from the market's best bid and ask over their midpoint, else null; floored
\* at 0
SpreadByPrecedence(c) ==
  LET market == c.market
      mid == (market.bestBid + market.bestAsk) \div 2
      unfloored ==
        IF c.orderbook # NullOrderbook /\ c.orderbook.spreadBps # Null
          THEN c.orderbook.spreadBps
        ELSE IF market.spread # Null THEN market.spread
        ELSE IF market.bestBid # Null /\ market.bestAsk # Null /\ mid > 0
          THEN FDiv(market.bestAsk - market.bestBid, mid)
        ELSE Null
  IN  IF unfloored = Null THEN Null
      ELSE IF unfloored < 0 THEN 0
      ELSE unfloored

\* the pre-filter lets the candidate through on that spread
WithinMaxSpread(c) ==
  \/ rankInput.maxSpreadBps = Undefined
  \/ SpreadByPrecedence(c) = Null
  \/ SpreadByPrecedence(c) <= rankInput.maxSpreadBps

\* the candidates the pre-filter lets through, in their order
RECURSIVE WithinMaxSpreadFrom(_)
WithinMaxSpreadFrom(i) ==
  IF i > Len(rankInput.candidates) THEN <<>>
  ELSE (IF WithinMaxSpread(rankInput.candidates[i])
          THEN <<rankInput.candidates[i]>>
          ELSE <<>>) \o WithinMaxSpreadFrom(i + 1)

\* C20: the spread the ranker's maxSpreadBps pre-filter tests is the spreadBps
\* the scorer uses for the candidate, both by one precedence rule (order-book
\* spreadBps, else market.spread x 10000, else derived from the market's best
\* bid and ask, else null, floored at 0): the candidates scored are the ones
\* whose spread by that rule is null or at most maxSpreadBps, and the trace of
\* each carries that spread.
C20_PreFilterSpreadIsScoredSpread ==
  (rankResult # Pending /\ rankInput.minVolume = Undefined
     /\ rankInput.minEdgePct = Undefined) =>
    LET through == WithinMaxSpreadFrom(1)
    IN  /\ Len(rankScored) = Len(through)
        /\ \A i \in 1..Len(rankScored) :
             /\ rankScored[i].trace.marketId = through[i].market.id
             /\ rankScored[i].trace.spreadBps = SpreadByPrecedence(through[i])

\* a candidate dropped on its order book's spread although its market's
\* spread field is below the maximum, next to one kept on its order book's
\* spread although its market's spread field is above the maximum
C20_Witness ==
  /\ rankResult # Pending
  /\ rankInput.maxSpreadBps = 80000
  /\ Len(rankInput.candidates) = 2
  /\ rankInput.candidates[1].market.id = <<1>>
  /\ rankInput.candidates[2].market.id = <<6>>
  /\ Len(rankScored) = 1
  /\ rankScored[1].trace.marketId = <<6>>
  /\ rankScored[1].trace.spreadBps = 2000

\* a negative spread field is tested and scored as 0
C20_Floored ==
  /\ rankResult # Pending
  /\ rankInput.maxSpreadBps = 0
  /\ Len(rankScored) = 1
  /\ rankScored[1].trace.marketId = <<5>>
  /\ rankScored[1].trace.spreadBps = 0

\* a candidate dropped on the spread derived from its quote
C20_DerivedDropped ==
  /\ rankResult # Pending
  /\ rankInput.maxSpreadBps = 80000
  /\ Len(rankInput.candidates) = 1
  /\ rankInput.candidates[1].market.id = <<3>>
  /\ SpreadByPrecedence(rankInput.candidates[1]) = 90909
  /\ Len(rankScored) = 0


\* ---------------------------------------------------------------------
\* The scorer over markets that differ in their price changes
\* ---------------------------------------------------------------------

\* a liquid, active market without a quote of its own
PlainMarket(spread, liquidity, volume24hr, momentum) ==
  MakeMarket(<<1>>, <<1>>,
             [outcomes |-> <<"Yes", "No">>,
              outcomePrices |-> <<Dec(30, 100), Dec(70, 100)>>],
             NoQuote, spread, liquidity, volume24hr, momentum, TRUE, FALSE)

PriceChanges ==
  {Null, 0 - Dec(40, 100), 0 - Dec(5, 100), 0 - Dec(1, 10000), 0,
   Dec(1, 10000), Dec(213, 10000), Dec(5, 100), Dec(40, 100)}

MomentumHorizons == {0, 1, 24, 37, 168, 500}

MomentumInputs ==
  [market : {PlainMarket(Dec(2, 1000), 99999, 999999,
                         [oneHour |-> h, oneDay |-> d]) :
               h \in PriceChanges, d \in PriceChanges},
   orderbook : {NullOrderbook},
   relatedMarkets : {<<>>},
   nowIso : {Timestamp(NowMs)},
   timeHorizonHours : MomentumHorizons]

InitMomentum ==
  /\ scoreInput \in MomentumInputs
  /\ scoreResult = Pending
  /\ scoreLocals = Pending
  /\ RankIdle
  /\ ScanIdle
  /\ ExtraIdle

SpecMomentum == InitMomentum /\ [][NextScore]_vars

\* oneHour x hourWeight + (oneDay, else oneHour) x dayWeight on the input,
\* a missing change counting 0
CompositeChange ==
  LET oneHour == scoreInput.market.oneHourPriceChange
      oneDay == scoreInput.market.oneDayPriceChange
      horizon == Min(168, Max(1, scoreInput.timeHorizonHours))
      hourWeight == Min(Dec(8, 10),
                        Max(Dec(2, 10), Dec(8, 10) - FDiv(horizon - 1, 120)))
      hour == IF oneHour = Null THEN 0 ELSE oneHour
      day == IF oneDay = Null THEN hour ELSE oneDay
  IN  FMul(hour, hourWeight) + FMul(day, Micro - hourWeight)

\* C21: the momentum estimator returns score 0, fairAdjustment 0 and hasData
\* false when both price changes are null; otherwise score is in [0, 1],
\* fairAdjustment is in [-0.12, 0.12] and has the opposite sign of the
\* composite change, a positive composite giving a strictly negative
\* adjustment.
C21_MomentumOpposesComposite ==
  scoreResult # Pending =>
    LET momentum == scoreLocals.momentum
    IN  IF scoreInput.market.oneHourPriceChange = Null
             /\ scoreInput.market.oneDayPriceChange = Null
          THEN momentum = [score |-> 0, fairAdjustment |-> 0,
                           hasData |-> FALSE]
          ELSE /\ momentum.score >= 0 /\ momentum.score <= Micro
               /\ momentum.fairAdjustment >= 0 - Dec(12, 100)
               /\ momentum.fairAdjustment <= Dec(12, 100)
               /\ CompositeChange > 0 => momentum.fairAdjustment < 0
               /\ CompositeChange < 0 => momentum.fairAdjustment > 0
               /\ CompositeChange = 0 => momentum.fairAdjustment = 0

\* oneHour 0.05, oneDay null, horizon 1: composite 0.05, adjustment -0.0175
C21_Witness ==
  /\ scoreResult # Pending
  /\ scoreInput.market.oneHourPriceChange = Dec(5, 100)
  /\ scoreInput.market.oneDayPriceChange = Null
  /\ scoreInput.timeHorizonHours = 1
  /\ CompositeChange = Dec(5, 100)
  /\ scoreLocals.momentum.fairAdjustment = 0 - Dec(175, 10000)

\* opposed changes that cancel at a horizon of 37 hours: no adjustment
C21_Cancelled ==
  /\ scoreResult # Pending
  /\ scoreInput.market.oneHourPriceChange = Dec(5, 100)
  /\ scoreInput.market.oneDayPriceChange = 0 - Dec(5, 100)
  /\ CompositeChange = 0
  /\ scoreLocals.momentum.hasData
  /\ scoreLocals.momentum.fairAdjustment = 0

\* a composite large enough for the adjustment to sit on its cap
C21_Capped ==
  /\ scoreResult # Pending
  /\ CompositeChange = 0 - Dec(40, 100)
  /\ scoreLocals.momentum.fairAdjustment = Dec(12, 100)
  /\ scoreLocals.momentum.score = Micro


\* ---------------------------------------------------------------------
\* The scorer over markets and snapshots that differ in volume and age
\* ---------------------------------------------------------------------

PenaltyVolumes == {Null, 0, 249, 250, 2499, 2500, 999999}

\* how long before `now` the snapshot was taken, in milliseconds: a minute
\* ahead of now, now, and the two sides of 20 and of 60 minutes
SnapshotAgesMs ==
  {0 - 60000, 0, 1199400, 1199760, 1200000, 3599400, 3599760, 3600000,
   4200000}

\* a two-sided snapshot taken at the given instant
SnapshotAt(timestamp) ==
  [tokenId |-> <<1>>, bestBid |-> Dec(42, 100), bestAsk |-> Dec(46, 100),
   midpoint |-> Dec(44, 100), spreadBps |-> 90909, timestamp |-> timestamp]

PenaltyInputs ==
  [market : {PlainMarket(Dec(2, 1000), 99999, volume24hr,
                         [oneHour |-> 0 - Dec(40, 100),
                          oneDay |-> 0 - Dec(40, 100)]) :
               volume24hr \in PenaltyVolumes},
   orderbook : {NullOrderbook, SnapshotAt(BadTimestamp)}
                 \cup {SnapshotAt(Timestamp(NowMs - age)) :
                         age \in SnapshotAgesMs},
   relatedMarkets : {<<>>},
   nowIso : {Timestamp(NowMs), BadTimestamp},
   timeHorizonHours : {24}]

InitPenalty ==
  /\ scoreInput \in PenaltyInputs
  /\ scoreResult = Pending
  /\ scoreLocals = Pending
  /\ RankIdle
  /\ ScanIdle
  /\ ExtraIdle

SpecPenalty == InitPenalty /\ [][NextScore]_vars

\* no order book, or a timestamp (the snapshot's or now) that does not parse
AgeUnknown ==
  \/ scoreInput.orderbook = NullOrderbook
  \/ scoreInput.orderbook.timestamp.date = NaN
  \/ scoreInput.nowIso.date = NaN

\* now - orderbook.timestamp in milliseconds, a later snapshot counting 0
ElapsedMs ==
  Max(0, scoreInput.nowIso.date - scoreInput.orderbook.timestamp.date)

\* the same age in hundredths of a minute, rounded to the nearest
ElapsedCentiMinutes == (ElapsedMs + 300) \div 600

\* 0.16 below 250 or unknown, 0.08 below 2500, else 0
LowActivityByVolume ==
  LET volume24hr == scoreInput.market.volume24hr
  IN  IF volume24hr = Null \/ volume24hr < 250 THEN Dec(16, 100)
      ELSE IF volume24hr < 2500 THEN Dec(8, 100)
      ELSE 0

\* C22 as stated: lowActivityPenalty steps at 250 and 2500; stalePenalty is
\* 0.04 when the age is unknown, 0.14 when the snapshot is at least 60
\* minutes old, 0.07 when it is at least 20 and less than 60 minutes old, and
\* 0 when it is less than 20 minutes old or later than now.
C22_PenaltiesOfElapsedTime ==
  scoreResult # Pending =>
    /\ scoreLocals.penalties.lowActivityPenalty = LowActivityByVolume
    /\ scoreLocals.penalties.stalePenalty =
         IF AgeUnknown THEN Dec(4, 100)
         ELSE IF ElapsedMs >= 60 * 60000 THEN Dec(14, 100)
         ELSE IF ElapsedMs >= 20 * 60000 THEN Dec(7, 100)
         ELSE 0

\* C22 amended: the same steps taken on the age rounded to 2 decimals of a
\* minute, the value the trace reports as orderbookAgeMinutes; the trace
\* carries both penalties.
C22_PenaltiesOfRoundedAge ==
  scoreResult # Pending =>
    /\ scoreLocals.penalties.lowActivityPenalty = LowActivityByVolume
    /\ scoreLocals.penalties.stalePenalty =
         IF AgeUnknown THEN Dec(4, 100)
         ELSE IF ElapsedCentiMinutes >= 6000 THEN Dec(14, 100)
         ELSE IF ElapsedCentiMinutes >= 2000 THEN Dec(7, 100)
         ELSE 0
    /\ scoreResult.trace.orderbookAgeMinutes =
         IF AgeUnknown THEN Null ELSE ElapsedCentiMinutes * 10000
    /\ scoreResult.trace.penalties.stalePenalty =
         scoreLocals.penalties.stalePenalty
    /\ scoreResult.trace.penalties.lowActivityPenalty =
         scoreLocals.penalties.lowActivityPenalty

\* a snapshot 59.996 minutes old is reported as 60 minutes old and carries
\* the 0.14 penalty; the market's volume of 250 carries 0.08
C22_Witness ==
  /\ scoreResult # Pending
  /\ ~AgeUnknown
  /\ ElapsedMs = 3599760
  /\ scoreInput.market.volume24hr = 250
  /\ scoreResult.trace.orderbookAgeMinutes = 60 * Micro
  /\ scoreLocals.penalties.stalePenalty = Dec(14, 100)
  /\ scoreLocals.penalties.lowActivityPenalty = Dec(8, 100)

\* a snapshot a minute later than now: age 0, no penalty
C22_LaterThanNow ==
  /\ scoreResult # Pending
  /\ ~AgeUnknown
  /\ scoreInput.orderbook.timestamp.date > scoreInput.nowIso.date
  /\ scoreResult.trace.orderbookAgeMinutes = 0
  /\ scoreLocals.penalties.stalePenalty = 0

\* a snapshot 59.99 minutes old carries 0.07
C22_JustBelowAnHour ==
  /\ scoreResult # Pending
  /\ ~AgeUnknown
  /\ ElapsedMs = 3599400
  /\ scoreLocals.penalties.stalePenalty = Dec(7, 100)


\* ---------------------------------------------------------------------
\* The scorer over inputs that differ in what the risk flags test
\* ---------------------------------------------------------------------

FlagSpreads == {Null, Dec(4, 100), Dec(401, 10000)}
FlagLiquidities == {Null, 999, 1000}
FlagVolumes == {Null, 249, 250, 999999}
FlagAgesMs == {60000, 3599400, 3599760, 3600000}

FlagMomenta ==
  { [oneHour |-> Null, oneDay |-> Null],
    [oneHour |-> Null, oneDay |-> Dec(5, 100)],
    [oneHour |-> 0 - Dec(40, 100), oneDay |-> 0 - Dec(40, 100)] }

\* a snapshot that leaves the spread to the market's own fields
SnapshotWithoutSpread(timestamp) ==
  [tokenId |-> <<1>>, bestBid |-> Dec(42, 100), bestAsk |-> Null,
   midpoint |-> Null, spreadBps |-> Null, timestamp |-> timestamp]

FlagInputs ==
  [market : {PlainMarket(spread, liquidity, volume24hr, momentum) :
               spread \in FlagSpreads, liquidity \in FlagLiquidities,
               volume24hr \in FlagVolumes, momentum \in FlagMomenta},
   orderbook : {NullOrderbook}
                 \cup {SnapshotWithoutSpread(Timestamp(NowMs - age)) :
                         age \in FlagAgesMs},
   relatedMarkets : {<<>>},
   nowIso : {Timestamp(NowMs)},
   timeHorizonHours : {24}]

InitFlags ==
  /\ scoreInput \in FlagInputs
  /\ scoreResult = Pending
  /\ scoreLocals = Pending
  /\ RankIdle
  /\ ScanIdle
  /\ ExtraIdle

SpecFlags == InitFlags /\ [][NextScore]_vars

\* seq with entry appended when condition holds
WithFlag(seq, condition, entry) ==
  IF condition THEN seq \o <<entry>> ELSE seq

\* the flags in their order, each on its own condition, stale saying whether
\* the snapshot counts as at least 60 minutes old
FlagsInOrder(stale) ==
  LET market == scoreInput.market
      spread == SpreadByPrecedence(scoreInput)
      a == WithFlag(<<>>, spread = Null, "missing spread data")
      b == WithFlag(a, spread # Null /\ spread > 400 * 100,
                    "wide spread execution risk")
      c == WithFlag(b, market.liquidity = Null \/ market.liquidity < 1000,
                    "thin liquidity")
      d == WithFlag(c, market.volume24hr = Null \/ market.volume24hr < 250,
                    "low 24h activity")
      e == WithFlag(d, ~AgeUnknown /\ stale, "stale orderbook snapshot")
      f == WithFlag(e, market.oneHourPriceChange = Null
                         /\ market.oneDayPriceChange = Null,
                    "limited momentum history")
  IN  WithFlag(f, scoreResult.signal.confidence = "low",
               "low confidence signal")

\* the flags of the signal other than the fallback entry
FlagsReported ==
  LET NotFallback(flag) == flag # "educational signal only"
  IN  SelectSeq(scoreResult.signal.riskFlags, NotFallback)

\* C23 as stated: riskFlags holds, in the fixed order, each flag exactly on
\* its own condition, 'stale orderbook snapshot' exactly when the order-book
\* age is known and the snapshot is at least 60 minutes old.
C23_FlagsOfElapsedTime ==
  scoreResult # Pending => FlagsReported = FlagsInOrder(ElapsedMs >= 60 * 60000)

\* C23 amended: the same with 'stale orderbook snapshot' exactly when the age
\* rounded to 2 decimals of a minute is known and at least 60; no flag
\* appears twice and the two spread flags never appear together.
C23_FlagsOfRoundedAge ==
  scoreResult # Pending =>
    LET flags == scoreResult.signal.riskFlags
    IN  /\ FlagsReported = FlagsInOrder(ElapsedCentiMinutes >= 6000)
        /\ \A i, j \in 1..Len(flags) : flags[i] = flags[j] => i = j
        /\ ~("missing spread data" \in Elements(flags)
               /\ "wide spread execution risk" \in Elements(flags))

\* a signal with six flags, in their order
C23_Witness ==
  /\ scoreResult # Pending
  /\ scoreResult.signal.riskFlags =
       <<"missing spread data", "thin liquidity", "low 24h activity",
         "stale orderbook snapshot", "limited momentum history",
         "low confidence signal">>

\* a spread of exactly 400 bps is not wide, one of 401 bps is
C23_WideAbove400 ==
  /\ scoreResult # Pending
  /\ SpreadByPrecedence(scoreInput) = 40100
  /\ scoreResult.signal.riskFlags[1] = "wide spread execution risk"

C23_NotWideAt400 ==
  /\ scoreResult # Pending
  /\ SpreadByPrecedence(scoreInput) = 40000
  /\ "wide spread execution risk" \notin Elements(scoreResult.signal.riskFlags)
  /\ scoreResult.signal.confidence # "low"

\* a snapshot 59.996 minutes old is flagged stale
C23_StaleBelowAnHour ==
  /\ scoreResult # Pending
  /\ ~AgeUnknown
  /\ ElapsedMs = 3599760
  /\ "stale orderbook snapshot" \in Elements(scoreResult.signal.riskFlags)


\* ---------------------------------------------------------------------
\* The scorer over inputs that push the edge and the score to their ends
\* ---------------------------------------------------------------------

EdgeShapes ==
  { [outcomes |-> <<>>, outcomePrices |-> <<>>],
    [outcomes |-> <<"Yes", "No">>,
     outcomePrices |-> <<Dec(20, 100), Dec(80, 100)>>],
    [outcomes |-> <<"Down", " yes ">>,
     outcomePrices |-> <<Dec(4, 1000), Dec(996, 1000)>>] }

EdgeMomenta ==
  { [oneHour |-> Null, oneDay |-> Null],
    [oneHour |-> Dec(213, 10000), oneDay |-> Dec(213, 10000)],
    [oneHour |-> Dec(40, 100), oneDay |-> Dec(40, 100)],
    [oneHour |-> 0 - Dec(40, 100), oneDay |-> 0 - Dec(40, 100)] }

EdgeMarkets ==
  { MakeMarket(<<1>>, <<1>>, shape, quote, spread, liquidity, volume24hr,
               momentum, TRUE, FALSE) :
      shape \in EdgeShapes,
      quote \in {NoQuote, [bestBid |-> Dec(42, 100), bestAsk |-> Dec(46, 100)]},
      spread \in {Null, Dec(2, 1000)}, liquidity \in {Null, 99999},
      volume24hr \in {Null, 999999}, momentum \in EdgeMomenta }

EdgePeers ==
  { <<>>,
    <<Peer(<<2>>, Dec(20, 100), FALSE), Peer(<<3>>, Dec(20, 100), FALSE)>>,
    <<Peer(<<2>>, Dec(30, 100), FALSE), Peer(<<4>>, Dec(5, 100), FALSE)>> }

EdgeOrderbooks ==
  { NullOrderbook,
    SnapshotAt(Timestamp(NowMs - 60000)),
    [tokenId |-> <<1>>, bestBid |-> Dec(129, 100), bestAsk |-> Dec(131, 100),
     midpoint |-> Dec(130, 100), spreadBps |-> 2000,
     timestamp |-> Timestamp(NowMs - 70 * 60000)],
    [tokenId |-> <<1>>, bestBid |-> Dec(129, 100), bestAsk |-> Dec(131, 100),
     midpoint |-> Dec(130, 100), spreadBps |-> 2000,
     timestamp |-> Timestamp(NowMs - 60000)] }

EdgeInputs ==
  [market : EdgeMarkets, orderbook : EdgeOrderbooks,
   relatedMarkets : EdgePeers, nowIso : {Timestamp(NowMs)},
   timeHorizonHours : {24}]

InitEdge ==
  /\ scoreInput \in EdgeInputs
  /\ scoreResult = Pending
  /\ scoreLocals = Pending
  /\ RankIdle
  /\ ScanIdle
  /\ ExtraIdle

SpecEdge == InitEdge /\ [][NextScore]_vars

\* C24: mispricingScore lies in [0, 100] and edgePct in [0, 32]: the momentum
\* adjustment is at most 0.12 and the partition adjustment at most 0.20 in
\* magnitude, and the clamped proxy is no further from marketProb than their
\* sum is from 0.
C24_ScoreAndEdgeBounded ==
  scoreResult # Pending =>
    LET l == scoreLocals
        adjustment == l.momentum.fairAdjustment + l.consistency.fairAdjustment
    IN  /\ scoreResult.signal.mispricingScore >= 0
        /\ scoreResult.signal.mispricingScore <= 100 * Micro
        /\ l.mispricingScore >= 0
        /\ l.mispricingScore <= 100 * Micro
        /\ scoreResult.signal.edgePct >= 0
        /\ scoreResult.signal.edgePct <= 32 * Micro
        /\ l.edgePct >= 0
        /\ l.edgePct <= 32 * Micro
        /\ Abs(l.momentum.fairAdjustment) <= Dec(12, 100)
        /\ Abs(l.consistency.fairAdjustment) <= Dec(20, 100)
        /\ Abs(l.fairProbProxy - l.marketProb) <= Abs(adjustment)
        /\ Abs(l.fairProbProxy - l.marketProb) <= Dec(32, 100)

\* both adjustments on their caps, upwards: an edge of 32 for YES
C24_Witness ==
  /\ scoreResult # Pending
  /\ scoreLocals.momentum.fairAdjustment = Dec(12, 100)
  /\ scoreLocals.consistency.fairAdjustment = Dec(20, 100)
  /\ scoreResult.signal.edgePct = 32 * Micro
  /\ scoreResult.signal.side = "YES"

\* both adjustments on their caps, downwards: an edge of 32 for NO
C24_DownwardEdge ==
  /\ scoreResult # Pending
  /\ scoreLocals.momentum.fairAdjustment = 0 - Dec(12, 100)
  /\ scoreLocals.consistency.fairAdjustment = 0 - Dec(20, 100)
  /\ scoreResult.signal.edgePct = 32 * Micro
  /\ scoreResult.signal.side = "NO"

\* the proxy held back by its clamp
C24_ProxyClamped ==
  /\ scoreResult # Pending
  /\ scoreLocals.fairProbProxy = Dec(99, 100)
  /\ scoreLocals.marketProb + scoreLocals.momentum.fairAdjustment
       + scoreLocals.consistency.fairAdjustment > Dec(99, 100)
  /\ scoreLocals.marketProb < Dec(99, 100)

\* penalties larger than the weighted sum: a score of 0
C24_ScoreFloor ==
  /\ scoreResult # Pending
  /\ scoreLocals.mispricingScore = 0
  /\ scoreLocals.penaltyTotal > Dec(10, 100)

\* every component at 1 and no penalty: a score of 100
C24_ScoreCeiling ==
  /\ scoreResult # Pending
  /\ scoreResult.signal.mispricingScore = 100 * Micro


\* ---------------------------------------------------------------------
\* Properties of the values a signal reports
\* ---------------------------------------------------------------------

\* 100 x |reported fairProbProxy - reported marketProb|
ReportedGap ==
  Abs(scoreResult.signal.fairProbProxy - scoreResult.signal.marketProb) * 100

\* the reported edgePct is the reported gap within 0.02
EdgeMatchesReportedGap ==
  Abs(scoreResult.signal.edgePct - ReportedGap) <= Dec(2, 100)

\* C25 as stated: side is 'YES' exactly when the reported fairProbProxy is >=
\* the reported marketProb and 'NO' exactly when it is smaller, and the
\* reported edgePct is 100 x their distance within 0.02.
C25_SideOfReportedValues ==
  scoreResult # Pending =>
    /\ (scoreResult.signal.side = "YES")
         <=> (scoreResult.signal.fairProbProxy
                >= scoreResult.signal.marketProb)
    /\ (scoreResult.signal.side = "NO")
         <=> (scoreResult.signal.fairProbProxy
                < scoreResult.signal.marketProb)
    /\ EdgeMatchesReportedGap

\* C25 amended: side is 'YES' exactly when the proxy before rounding is >=
\* marketProb before rounding; the reported values never contradict it (a
\* larger reported proxy goes with 'YES', a smaller one with 'NO'), equal
\* reported probabilities go with either side, and the reported edgePct is
\* 100 x their distance within 0.02.
C25_SideOfUnroundedValues ==
  scoreResult # Pending =>
    /\ scoreResult.signal.side \in {"YES", "NO"}
    /\ (scoreResult.signal.side = "YES")
         <=> (scoreLocals.fairProbProxy >= scoreLocals.marketProb)
    /\ scoreResult.signal.fairProbProxy > scoreResult.signal.marketProb
         => scoreResult.signal.side = "YES"
    /\ scoreResult.signal.fairProbProxy < scoreResult.signal.marketProb
         => scoreResult.signal.side = "NO"
    /\ EdgeMatchesReportedGap
    /\ scoreResult.signal.fairProbProxy = round4(scoreLocals.fairProbProxy)
    /\ scoreResult.signal.marketProb = round4(scoreLocals.marketProb)
    /\ scoreResult.signal.edgePct = round2(scoreLocals.edgePct)

\* a proxy 0.000035 below marketProb: both reported as 0.3, side 'NO',
\* edgePct 0
C25_Witness ==
  /\ scoreResult # Pending
  /\ scoreLocals.marketProb = Dec(30, 100)
  /\ scoreLocals.fairProbProxy = Dec(30, 100) - 35
  /\ scoreResult.signal.marketProb = Dec(30, 100)
  /\ scoreResult.signal.fairProbProxy = Dec(30, 100)
  /\ scoreResult.signal.side = "NO"
  /\ scoreResult.signal.edgePct = 0

\* no adjustment at all: equal probabilities, side 'YES', edgePct 0
C25_EqualAndYes ==
  /\ scoreResult # Pending
  /\ scoreLocals.fairProbProxy = scoreLocals.marketProb
  /\ scoreResult.signal.side = "YES"
  /\ scoreResult.signal.edgePct = 0

\* a reported edge that is not the reported gap to the last digit
C25_EdgeOffByRounding ==
  /\ scoreResult # Pending
  /\ scoreResult.signal.edgePct # ReportedGap
  /\ scoreResult.signal.edgePct > 0


\* ---------------------------------------------------------------------
\* Properties of the spread filter of the ranker
\* ---------------------------------------------------------------------

\* the candidates of the call that carry the market of the signal
CandidatesOf(signal) ==
  {i \in 1..Len(rankInput.candidates) :
     rankInput.candidates[i].market.id = signal.marketId}

\* C26: when maxSpreadBps is specified, every returned signal belongs to a
\* candidate whose resolved spread is null or at most maxSpreadBps, and a
\* candidate whose spread is null is never dropped by the spread filter.
C26_ReturnedWithinMaxSpread ==
  (rankResult # Pending /\ rankInput.maxSpreadBps # Undefined) =>
    /\ \A k \in 1..Len(rankResult.signals) :
         /\ CandidatesOf(rankResult.signals[k]) # {}
         /\ \A i \in CandidatesOf(rankResult.signals[k]) :
              LET spread == SpreadByPrecedence(rankInput.candidates[i])
              IN  spread = Null \/ spread <= rankInput.maxSpreadBps
    /\ \A i \in 1..Len(rankInput.candidates) :
         (SpreadByPrecedence(rankInput.candidates[i]) = Null
            /\ ~BelowVolume(rankInput, rankInput.candidates[i])
            /\ rankInput.minEdgePct = Undefined)
           => \E k \in 1..Len(rankScored) :
                rankScored[k].signal.marketId
                  = rankInput.candidates[i].market.id

\* a maximum of 800 bps: the candidate without any spread is returned, the
\* one whose quote gives 909.09 bps is not
C26_Witness ==
  /\ rankResult # Pending
  /\ rankInput.maxSpreadBps = 80000
  /\ Len(rankInput.candidates) = 2
  /\ SpreadByPrecedence(rankInput.candidates[1]) = 90909
  /\ SpreadByPrecedence(rankInput.candidates[2]) = Null
  /\ Len(rankResult.signals) = 1
  /\ rankResult.signals[1].marketId = rankInput.candidates[2].market.id


\* ---------------------------------------------------------------------
\* Properties of the scan's opportunities
\* ---------------------------------------------------------------------

\* the candidates the scan handed to the ranker whose 24h volume is unknown
UnknownVolumeIds ==
  {handed[i].market.id :
     i \in {j \in 1..Len(handed) : handed[j].market.volume24hr = Null}}

\* C27: the scan always passes a minVolume to the ranker (0 by default), and
\* with a minVolume, 0 included, a candidate whose volume24hr is null is left
\* out of the ranking: no market with an unknown 24h volume is among a scan's
\* opportunities.
C27_UnknownVolumeExcluded ==
  (scanPc = "done" /\ scanResult.ok) =>
    /\ normalized.minVolume # Undefined
    /\ normalized.minVolume >= 0
    /\ scanInput.minVolume = Undefined => normalized.minVolume = 0
    /\ \A k \in 1..Len(scanResult.opportunities) :
         scanResult.opportunities[k].marketId \notin UnknownVolumeIds

\* a scan left to its defaults over two candidates, the first of unknown
\* volume: only the second is an opportunity
C27_Witness ==
  /\ scanPc = "done"
  /\ scanResult.ok
  /\ scanInput.minVolume = Undefined
  /\ normalized.minVolume = 0
  /\ Len(handed) = 2
  /\ handed[1].market.volume24hr = Null
  /\ handed[2].market.volume24hr # Null
  /\ Len(scanResult.opportunities) = 1
  /\ scanResult.opportunities[1].marketId = handed[2].market.id


\* ---------------------------------------------------------------------
\* Properties of signals of high confidence
\* ---------------------------------------------------------------------

\* C28: a signal with confidence 'high' never carries the risk flags 'low 24h
\* activity', 'stale orderbook snapshot' or 'low confidence signal': its
\* penalties total less than 0.09, which excludes the 0.16 low-activity
\* penalty and the 0.14 staleness penalty that share their conditions with
\* the first two flags.
C28_HighConfidenceFlags ==
  (scoreResult # Pending /\ scoreResult.signal.confidence = "high") =>
    /\ "low 24h activity" \notin Elements(scoreResult.signal.riskFlags)
    /\ "stale orderbook snapshot" \notin Elements(scoreResult.signal.riskFlags)
    /\ "low confidence signal" \notin Elements(scoreResult.signal.riskFlags)
    /\ scoreLocals.penaltyTotal < Dec(9, 100)
    /\ scoreLocals.penalties.lowActivityPenalty # Dec(16, 100)
    /\ scoreLocals.penalties.stalePenalty # Dec(14, 100)

\* a signal of high confidence that carries a flag all the same
C28_Witness ==
  /\ scoreResult # Pending
  /\ scoreResult.signal.confidence = "high"
  /\ scoreResult.signal.riskFlags = <<"wide spread execution risk">>

\* a score of at least 70 and an edge of at least 1.5 on a market of unknown
\* volume: flagged 'low 24h activity' and not of high confidence
C28_HeldBackByActivity ==
  /\ scoreResult # Pending
  /\ scoreLocals.mispricingScore >= 70 * Micro
  /\ scoreLocals.edgePct >= Dec(15, 10)
  /\ scoreInput.market.volume24hr = Null
  /\ "low 24h activity" \in Elements(scoreResult.signal.riskFlags)
  /\ scoreResult.signal.confidence = "medium"

\* the same on a snapshot 70 minutes old
C28_HeldBackByStaleness ==
  /\ scoreResult # Pending
  /\ scoreLocals.mispricingScore >= 70 * Micro
  /\ scoreLocals.edgePct >= Dec(15, 10)
  /\ "stale orderbook snapshot" \in Elements(scoreResult.signal.riskFlags)
  /\ "low 24h activity" \notin Elements(scoreResult.signal.riskFlags)
  /\ scoreResult.signal.confidence = "medium"


\* ---------------------------------------------------------------------
\* The scan under an event loop that runs what is ready and a network that
\* answers every request
\* ---------------------------------------------------------------------

\* the request of worker w settles, one way or the other
FetchSettles(w) ==
  /\ w <= Len(workers)
  /\ \/ FetchReject(w)
     \/ \E summary \in Summaries(resolveReferenceTokenId(
                                   scanCandidates[Slot(w)])) :
          FetchResolve(w, summary)

\* Promise.all of the workers resolves and the scan goes on: the step of
\* ScanFinish, told by scanPc alone
PoolSettles ==
  /\ scanPc = "pool"
  /\ \A w \in 1..Len(workers) : workers[w].awaits = "nothing"
  /\ scanPc' = "done"

\* resumed workers run, the resolved pool lets the scan go on, and every
\* mapper call settles
FairScan ==
  /\ WF_vars(SkipResume)
  /\ WF_vars(RefusedResume)
  /\ WF_scanPc(PoolSettles)
  /\ \A w \in 1..MAX_CONCURRENCY : WF_vars(FetchSettles(w))

SpecScanLive == InitScan /\ [][NextScan]_vars /\ FairScan

\* mapWithConcurrency has resolved with every slot filled and the scan has
\* returned
PoolResolved ==
  /\ scanPc = "done"
  /\ scanResult.ok
  /\ index = Len(scanCandidates)
  /\ Len(results) = Len(scanCandidates)
  /\ \A i \in 1..Len(results) : results[i] # Pending
  /\ \A w \in 1..Len(workers) : workers[w].awaits = "nothing"
  /\ Len(handed) = Len(scanCandidates)

\* C29: the order-book worker pool terminates: with every mapper call
\* settling, a pool that was started resolves with all n result slots
\* filled, every worker having left its loop with the cursor at n; a worker
\* leaves its loop only with the cursor at n; with zero items no worker is
\* started and the list is empty.
C29_PoolTerminates ==
  /\ (scanPc = "pool") ~> PoolResolved
  /\ [](\A w \in 1..Len(workers) :
          workers[w].awaits = "nothing" => index = Len(scanCandidates))
  /\ []((scanPc \in {"pool", "done"} /\ Len(scanCandidates) = 0)
          => (workers = <<>> /\ results = <<>> /\ fetchLog = <<>>))

\* three candidates mapped by two workers, one request answered and one
\* failed, and the scan has returned
C29_Witness ==
  /\ PoolResolved
  /\ Len(scanCandidates) = 3
  /\ Len(workers) = 2
  /\ \E i, j \in 1..3 :
       fetchLog[i].ended = "resolved" /\ fetchLog[j].ended = "rejected"

\* a listing without a candidate: resolved without a worker
C29_NoItems ==
  /\ PoolResolved
  /\ Len(scanCandidates) = 0
  /\ workers = <<>>
  /\ scanResult.scannedMarkets = 0

(***************************************************************************)
(* The conversation of the cli chat REPL across failed turns (SpecChat)    *)
(***************************************************************************)

\* the start indices of the completed turns increase strictly and lie
\* below messages.length, and without a completed turn there is no message
ConversationWellFormed ==
  /\ \A i \in 1..Len(turnHistory) :
       turnHistory[i].startIndex < Len(messages)
  /\ \A i \in 1..(Len(turnHistory) - 1) :
       turnHistory[i].startIndex < turnHistory[i + 1].startIndex
  /\ turnHistory = <<>> => messages = <<>>

\* C30: in the cli chat REPL a turn that ends in the catch block, on an
\* error or on an interruption, leaves the conversation as runTurn found it:
\* messages is again the list the turn started from and turnHistory is
\* unchanged; and at every prompt the start indices in turnHistory increase
\* strictly, each is smaller than messages.length, and messages is empty
\* whenever turnHistory is empty.
C30_FailedTurnLeavesConversation ==
  /\ [][TurnFail =>
          /\ messages' = turnFound[Len(turnFound)]
          /\ Len(messages') = turnStartIndex
          /\ turnHistory' = turnHistory]_vars
  /\ [](chatPc = "prompt" => ConversationWellFormed)

\* "a" was answered and "b" then failed: two lines read, one turn recorded,
\* the two messages of the first turn left, "b" being the input to retry
C30_Witness ==
  /\ chatPc = "prompt"
  /\ linesRead = 2
  /\ lastRetriableInput = "b"
  /\ Len(turnHistory) = 1
  /\ turnHistory[1].userInput = "a"
  /\ messages = <<UserMessage("a")>> \o ResponseMessages("a", 1)

\* the first turn failed: nothing recorded, no message left
C30_FirstTurnFailed ==
  /\ chatPc = "prompt"
  /\ linesRead = 1
  /\ lastRetriableInput = "a"
  /\ turnHistory = <<>>
  /\ messages = <<>>

\* /retry took back the only completed turn and the retried turn failed: the
\* conversation is as the retried turn found it, empty
C30_RetriedTurnFailed ==
  /\ chatPc = "prompt"
  /\ lastLine = "/retry"
  /\ Len(atLastLine.messages) = 2
  /\ turnHistory = <<>>
  /\ messages = <<>>

====
